---- MODULE Spec2Model ----
(***************************************************************************)
(* Model of the kernel's process scheduler (kern/src/process/scheduler.rs), *)
(* the readiness probe of a process (kern/src/process/process.rs), the      *)
(* sleep system call (kern/src/traps/syscall.rs), the kernel mutex          *)
(* (kern/src/mutex.rs), and the user page table (kern/src/vm/pagetable.rs)  *)
(* over the page bin of the allocator (kern/src/allocator/bin.rs); also the *)
(* kernel page table, the loading of a program image (Process::load) and    *)
(* StackVec (lib/stack-vec/src/lib.rs).                                     *)
(*                                                                          *)
(* Option<T> is a sequence of length at most one: <<>> is None, <<v>> is    *)
(* Some(v).  Queue indices are 1-based here and 0-based in the source.      *)
(***************************************************************************)
EXTENDS Integers, Sequences, FiniteSets, TLC

\* ---------------------------------------------------------------- bounds
\* number of add calls explored
MaxAdds == 3
\* the clock runs from 0 to MaxTime
MaxTime == 1
\* largest sleep duration a process asks for
MaxSleep == 1
\* number of Scheduler calls explored in one run
MaxCalls == 5
\* largest number of processes in the round-robin runs
MaxN == 4
\* number of switch_to / schedule_out cycles in the round-robin runs
MaxCycles == 8

\* live guards one core may pile up
MaxGuards == 2
\* number of processes added before the cores start scheduling
MaxBootAdds == 2
\* number of traps (timer interrupts, sleep calls, kills) the cores take
MaxTraps == 3

\* number of Process objects created in the page-table runs and in the
\* context-switch runs
MaxProcs == 2
\* largest backing slice handed to StackVec::new
MaxCap == 3
\* pages of a program image, mapped from the image base upwards
MaxImagePages == 1
\* pages of physical memory the allocator has to give
MaxPages == 3

\* ------------------------------------------------------------ data model
\* resume addresses: the image base a new process starts at, and one further on
ELRs == {0, 1}

\* thread ids a trap frame passed in carries: those of the first two processes
TPIDRs == {1, 2}

\* the cores try_lock tells apart: the boot core 0 and a secondary core
Cores == {0, 1}

\* usize::max_value(), the owner of a Mutex nobody has locked yet
NoOwner == -1

None == << >>
Some(v) == << v >>

\* TrapFrame: every field of the struct but the padding word.  x0 and x7 are
\* the two general registers the sleep system call writes, x stands for the
\* other general registers and q for the SIMD bank.  Where only the resume
\* address, the thread id and x0, x7 matter the other fields are 0.
FullFrame(elr, spsr, sp, tpidr, ttbr0, ttbr1, q, x, x0, x7, lr) ==
    [ELR |-> elr, SPSR |-> spsr, SP |-> sp, TPIDR |-> tpidr, TTBR0 |-> ttbr0,
     TTBR1 |-> ttbr1, q |-> q, x |-> x, x0 |-> x0, x7 |-> x7, lr |-> lr]

TrapFrame(elr, tpidr, x0, x7) == FullFrame(elr, 0, 0, tpidr, 0, 0, 0, 0, x0, x7, 0)

\* TrapFrame::default()
DefaultTrapFrame == TrapFrame(0, 0, 0, 0)

\* State: Ready, Running, Dead, and Waiting(sleep_fn) where the closure
\* captured start_time and ms.
Ready == [k |-> "Ready", start |-> 0, ms |-> 0]
Running == [k |-> "Running", start |-> 0, ms |-> 0]
Dead == [k |-> "Dead", start |-> 0, ms |-> 0]
Waiting(start, ms) == [k |-> "Waiting", start |-> start, ms |-> ms]

\* Process: pid names the Process object (it never changes), context is the
\* stored trap frame, state the scheduling state.
Process(pid, context, state) == [pid |-> pid, context |-> context, state |-> state]

\* the Timer1 interrupt after reset: no handler, masked in the controller,
\* no match set
TimerOff == [registered |-> FALSE, enabled |-> FALSE, armed |-> FALSE, handling |-> FALSE]

\* Option::unwrap_or
unwrap_or(opt, d) == IF opt = None THEN d ELSE opt[1]

VARIABLES
    processes,  \* Scheduler.processes, front first
    last_id,    \* Scheduler.last_id
    now,        \* pi::timer::current_time() in milliseconds
    tf,         \* the caller's trap frame (the &mut TrapFrame argument)
    last,       \* the last Scheduler call: name, state argument, result, and for
                \* switch_to the queue position and former state of the selection
    adds,       \* number of add calls made so far
    calls,      \* number of Scheduler calls made, or of traps taken, so far
    target,     \* round-robin run: the number of processes added
    log,        \* round-robin run: the results of the switch_to calls, oldest first
    saved,      \* context-switch run: for each process the frame passed to the
                \* schedule_out(Ready, .) that last acted on it, if that was the
                \* last schedule_out to act on it
    passed,     \* cycle run: for each queued process the number of switch_to
                \* calls that selected another process since it last became Ready
    lock,       \* Mutex.lock
    owner,      \* Mutex.owner
    mmu_ready,  \* is_mmu_ready() of each core
    mpc,        \* where each core stands inside Mutex::try_lock
    guards,     \* number of live MutexGuards each core holds
    pc,         \* where each core stands in the GlobalScheduler
    ctf,        \* the trap frame of each core
    arg,        \* the new_state argument of each core's switch call
    rid,        \* the result of each core's last switch call
    vmap,       \* Process.vmap of every live Process object: its L3 entries
    got,        \* the addresses UserPageTable::alloc returned, per live table
    allocator,  \* the bin allocator: start, end and the free list of the page bin
    nproc,      \* number of Process::new calls made so far
    vmlast,     \* the last page-table operation and the addresses it freed
    timer,      \* the Timer1 interrupt: handler registered, interrupt enabled,
                \* a match armed, and the handler running
    stackvec,   \* a StackVec: its backing storage and its len field
    kept,       \* the values pushed onto the StackVec and not yet removed, and
                \* the last StackVec call with its argument
    kpt,        \* KernPageTable::new: the loop address, the entries written
                \* and the panic, all in pages
    ld          \* Process::load: where it stands, the file, the pages it
                \* filled and its result

schedVars == <<processes, last_id, tf, last, adds>>
rrVars == <<target, log, saved, passed>>
mutexVars == <<lock, owner, mmu_ready, mpc, guards>>
coreVars == <<pc, ctf, arg, rid>>
vmVars == <<vmap, got, allocator, nproc, vmlast>>
irqVars == <<timer>>
libVars == <<stackvec, kept, kpt, ld>>
vars == <<processes, last_id, now, tf, last, adds, calls, target, log, saved, passed,
          lock, owner, mmu_ready, mpc, guards, pc, ctf, arg, rid,
          vmap, got, allocator, nproc, vmlast, timer, stackvec, kept, kpt, ld>>

\* --------------------------------------------------------------- sys_sleep
\* sleep_fn that writes the registers before it compares the times
sleep_fn_eager(start, ms, p, t) ==
    LET elapsed == t - start
        w == [p EXCEPT !.context.x0 = elapsed, !.context.x7 = 1]
    IN  IF elapsed > ms THEN [b |-> TRUE, p |-> w] ELSE [b |-> FALSE, p |-> w]

\* the closure sleep_fn built by sys_sleep, applied to process p at time t
sleep_fn(start, ms, p, t) ==
    LET elapsed == t - start IN
    IF elapsed > ms
    THEN [b |-> TRUE,
          p |-> [p EXCEPT !.context.x0 = elapsed, !.context.x7 = 1]]
    ELSE [b |-> FALSE, p |-> p]

\* ------------------------------------------------------ Process::is_ready
\* is_ready that does not put the Waiting state back after a failed poll
is_ready_norestore(p, t) ==
    LET state == p.state
        self == [p EXCEPT !.state = Ready]
    IN  IF state.k = "Ready" THEN [b |-> TRUE, p |-> self]
        ELSE IF state.k = "Waiting"
        THEN LET r == sleep_fn(state.start, state.ms, self, t) IN
             IF r.b THEN [b |-> TRUE, p |-> r.p]
             ELSE [b |-> FALSE, p |-> r.p]
        ELSE [b |-> FALSE, p |-> [self EXCEPT !.state = state]]

\* is_ready that leaves Ready behind in the catch-all arm of the match
is_ready_forget(p, t) ==
    LET state == p.state
        self == [p EXCEPT !.state = Ready]
    IN  IF state.k = "Ready" THEN [b |-> TRUE, p |-> self]
        ELSE IF state.k = "Waiting"
        THEN LET r == sleep_fn(state.start, state.ms, self, t) IN
             IF r.b THEN [b |-> TRUE, p |-> r.p]
             ELSE [b |-> FALSE, p |-> [r.p EXCEPT !.state = state]]
        ELSE [b |-> FALSE, p |-> self]

\* Process::is_ready
is_ready(p, t) ==
    LET state == p.state
        self == [p EXCEPT !.state = Ready]
    IN  IF state.k = "Ready" THEN [b |-> TRUE, p |-> self]
        ELSE IF state.k = "Waiting"
        THEN LET r == sleep_fn(state.start, state.ms, self, t) IN
             IF r.b THEN [b |-> TRUE, p |-> r.p]
             ELSE [b |-> FALSE, p |-> [r.p EXCEPT !.state = state]]
        ELSE [b |-> FALSE, p |-> [self EXCEPT !.state = state]]

\* ------------------------------------------------------------- VecDeque
\* VecDeque::swap: exchange the entries at 0-based indices i and j
swap(q, i, j) ==
    [n \in 1..Len(q) |-> IF n = i + 1 THEN q[j + 1]
                         ELSE IF n = j + 1 THEN q[i + 1] ELSE q[n]]

\* swap_remove_back in place of swap_remove_front: the entry at index i is
\* replaced by the back entry
swap_remove_back(q, i) ==
    IF i >= Len(q) THEN [val |-> None, q |-> q]
    ELSE LET s == IF i # Len(q) - 1 THEN swap(q, i, Len(q) - 1) ELSE q
         IN  [val |-> Some(s[Len(s)]), q |-> SubSeq(s, 1, Len(s) - 1)]

\* swap_remove_front that returns the entry at index i and removes the front
\* entry without exchanging the two
swap_remove_front_noswap(q, i) ==
    IF i >= Len(q) THEN [val |-> None, q |-> q]
    ELSE [val |-> Some(q[i + 1]), q |-> Tail(q)]

\* VecDeque::swap_remove_front: the entry at index i is replaced by the
\* front entry and returned; None when i is out of bounds
swap_remove_front(q, i) ==
    IF i >= Len(q) THEN [val |-> None, q |-> q]
    ELSE LET s == IF i # 0 THEN swap(q, i, 0) ELSE q
         IN  [val |-> Some(Head(s)), q |-> Tail(s)]

\* push_front that appends at the back
push_front_at_back(q, p) == Append(q, p)

push_front(q, p) == <<p>> \o q
push_back(q, p) == Append(q, p)

\* ------------------------------------------------------------- Scheduler
\* add that derives the new id from the queue length
add_by_len(q, lid, process) ==
    LET new_id == Len(q) + 1
        p == [process EXCEPT !.context.TPIDR = new_id]
    IN  [processes |-> push_back(q, p), last_id |-> Some(new_id), ret |-> Some(new_id)]

\* Scheduler::add
add(q, lid, process) ==
    LET new_id == unwrap_or(lid, 0) + 1
        p == [process EXCEPT !.context.TPIDR = new_id]
    IN  [processes |-> push_back(q, p), last_id |-> Some(new_id), ret |-> Some(new_id)]

\* schedule_out that puts the process back at the front
schedule_out_front(q, new_state, t) ==
    IF q = << >> THEN [processes |-> q, ret |-> FALSE]
    ELSE LET old_process == [Head(q) EXCEPT !.state = new_state, !.context = t]
         IN  [processes |-> push_front(Tail(q), old_process), ret |-> TRUE]

\* schedule_out that stores the frame and leaves the state as it was
schedule_out_keep_state(q, new_state, t) ==
    IF q = << >> THEN [processes |-> q, ret |-> FALSE]
    ELSE LET old_process == [Head(q) EXCEPT !.context = t]
         IN  [processes |-> push_back(Tail(q), old_process), ret |-> TRUE]

\* Scheduler::schedule_out
schedule_out(q, new_state, t) ==
    IF q = << >> THEN [processes |-> q, ret |-> FALSE]
    ELSE LET old_process == [Head(q) EXCEPT !.state = new_state, !.context = t]
         IN  [processes |-> push_back(Tail(q), old_process), ret |-> TRUE]

\* the while loop of Scheduler::switch_to, entered with index i; the next
\* turn of the loop runs on the queue as this turn left it.  seen lists the
\* processes is_ready was called on, in the order of the calls.
RECURSIVE switch_to_from(_, _, _, _)
switch_to_from(q, i, t, time) ==
    LET r == swap_remove_front(q, i) IN
    IF r.val = None THEN [processes |-> q, tf |-> t, ret |-> None, seen |-> << >>]
    ELSE LET ir == is_ready(r.val[1], time) IN
         IF ir.b
         THEN LET process == [ir.p EXCEPT !.state = Running]
              IN  [processes |-> push_front(r.q, process),
                   tf |-> process.context,
                   ret |-> Some(process.context.TPIDR),
                   seen |-> <<process.pid>>]
         ELSE LET rest == CHOOSE res \in {switch_to_from(q2, i + 1, t, time) :
                                            q2 \in {push_front(r.q, ir.p)}} : TRUE
              IN  [rest EXCEPT !.seen = <<ir.p.pid>> \o @]

\* the loop with a process that is not ready pushed to the back of the queue
RECURSIVE switch_to_from_pushback(_, _, _, _)
switch_to_from_pushback(q, i, t, time) ==
    LET r == swap_remove_front(q, i) IN
    IF r.val = None THEN [processes |-> q, tf |-> t, ret |-> None, seen |-> << >>]
    ELSE LET ir == is_ready(r.val[1], time) IN
         IF ir.b
         THEN LET process == [ir.p EXCEPT !.state = Running]
              IN  [processes |-> push_front(r.q, process),
                   tf |-> process.context,
                   ret |-> Some(process.context.TPIDR),
                   seen |-> <<process.pid>>]
         ELSE LET rest == CHOOSE res \in {switch_to_from_pushback(q2, i + 1, t, time) :
                                            q2 \in {push_back(r.q, ir.p)}} : TRUE
              IN  [rest EXCEPT !.seen = <<ir.p.pid>> \o @]

switch_to_pushback(q, t, time) == switch_to_from_pushback(q, 0, t, time)

\* switch_to that does not copy the stored trap frame into the caller's
switch_to_nocopy(q, t, time) == [switch_to_from(q, 0, t, time) EXCEPT !.tf = t]

\* switch_to that hands back a zeroed trap frame when it finds nothing
switch_to_clobber(q, t, time) ==
    LET r == switch_to_from(q, 0, t, time) IN
    IF r.ret = None THEN [r EXCEPT !.tf = DefaultTrapFrame] ELSE r

\* switch_to that restores every field but the user translation table base
switch_to_keep_ttbr1(q, t, time) ==
    LET r == switch_to_from(q, 0, t, time) IN
    IF r.ret = None THEN r ELSE [r EXCEPT !.tf.TTBR1 = t.TTBR1]

\* Scheduler::switch_to
switch_to(q, t, time) == switch_to_from(q, 0, t, time)

\* kill that forgets the process it removed instead of dropping it
kill_nodrop(q, t) ==
    LET so == schedule_out(q, Dead, t) IN
    IF so.processes = << >>
    THEN [processes |-> so.processes, ret |-> None, dropped |-> None]
    ELSE LET process == so.processes[Len(so.processes)] IN
         [processes |-> SubSeq(so.processes, 1, Len(so.processes) - 1),
          ret |-> Some(process.context.TPIDR),
          dropped |-> None]

\* kill that removes the front entry after schedule_out
kill_pop_front(q, t) ==
    LET so == schedule_out(q, Dead, t) IN
    IF so.processes = << >>
    THEN [processes |-> so.processes, ret |-> None, dropped |-> None]
    ELSE LET process == Head(so.processes) IN
         [processes |-> Tail(so.processes),
          ret |-> Some(process.context.TPIDR),
          dropped |-> Some(process.pid)]

\* kill that reads the back entry and leaves it queued
kill_keep(q, t) ==
    LET so == schedule_out(q, Dead, t) IN
    IF so.processes = << >>
    THEN [processes |-> so.processes, ret |-> None, dropped |-> None]
    ELSE LET process == so.processes[Len(so.processes)] IN
         [processes |-> so.processes,
          ret |-> Some(process.context.TPIDR),
          dropped |-> None]

\* Scheduler::kill; dropped names the Process object that goes out of scope,
\* and is dropped, when kill returns
kill(q, t) ==
    LET so == schedule_out(q, Dead, t) IN
    IF so.processes = << >>
    THEN [processes |-> so.processes, ret |-> None, dropped |-> None]
    ELSE LET process == so.processes[Len(so.processes)] IN
         [processes |-> SubSeq(so.processes, 1, Len(so.processes) - 1),
          ret |-> Some(process.context.TPIDR),
          dropped |-> Some(process.pid)]

\* Scheduler::find_process: the first queued process whose stored TPIDR is
\* that of t; None stands for the panic of a failed search
find_process(q, t) ==
    LET hits == {i \in 1..Len(q) : q[i].context.TPIDR = t.TPIDR} IN
    IF hits = {} THEN None
    ELSE Some(q[CHOOSE i \in hits : \A j \in hits : i <= j])

\* ------------------------------------------------------------ page table
\* PAGE_SIZE: the 64 KiB granule; an L3 index is 13 bits wide, from bit 16
PAGE_SIZE == 65536
\* entries of one L3 table
L3_ENTRIES == 8192
\* the low bits of the entry alloc builds: VALID, the entry type, USER_RW,
\* inner shareable and the access flag
ENTRY_BITS == 1859

\* the set of elements of a sequence
Range(f) == {f[n] : n \in DOMAIN f}

\* locate that takes the L3 index alone and always names the first L3 table
locate_l3_only(va) == <<0, (va \div PAGE_SIZE) % L3_ENTRIES>>

\* the two index fields PageTable::locate extracts from va: bits 29 to 41
\* and bits 16 to 28, as (L2 index, L3 index)
locate(va) == <<(va \div (L3_ENTRIES * PAGE_SIZE)) % L3_ENTRIES,
                (va \div PAGE_SIZE) % L3_ENTRIES>>

\* the virtual addresses, relative to USER_IMG_BASE, that get mapped: the
\* image pages and one page in the second L3 table, in increasing order
VAs == [n \in 1..(MaxImagePages + 1) |->
          IF n <= MaxImagePages THEN (n - 1) * PAGE_SIZE
          ELSE L3_ENTRIES * PAGE_SIZE]

\* the L3 slots those addresses name, in the order of PageTable::into_iter
Slots == [n \in DOMAIN VAs |-> locate(VAs[n])]

\* the entry alloc builds for the page at addr: set_masked(addr, ADDR) and
\* the attribute bits
RawL3Entry(addr) == (addr \div PAGE_SIZE) * PAGE_SIZE + ENTRY_BITS

\* L3Entry::is_valid: the VALID bit
is_valid(entry) == entry % 2 = 1

\* L3Entry::get_page_addr
get_page_addr(entry) ==
    IF is_valid(entry) THEN Some((entry \div PAGE_SIZE) * PAGE_SIZE) ELSE None

\* UserPageTable::new: every entry 0
EmptyTable == [s \in Range(Slots) |-> 0]

\* the physical pages the valid entries of a table point at
Pages(tbl) == {get_page_addr(tbl[s])[1] : s \in {x \in DOMAIN tbl : is_valid(tbl[x])}}

\* the first page the allocator hands out; address 0 is the null pointer
POOL_START == PAGE_SIZE

\* Allocator::new over MaxPages pages of memory; bin is the free list of the
\* bin that serves Page::layout(), head first
AllocatorNew == [start |-> POOL_START,
                 end |-> POOL_START + MaxPages * PAGE_SIZE,
                 bin |-> << >>]

\* alloc that returns the head of the free list and leaves it on the list
Allocator_alloc_nopop(al) ==
    IF al.bin # << >>
    THEN [addr |-> Head(al.bin), al |-> al]
    ELSE IF al.start + PAGE_SIZE > al.end
         THEN [addr |-> 0, al |-> al]
         ELSE [addr |-> al.start, al |-> [al EXCEPT !.start = al.start + PAGE_SIZE]]

\* Allocator::alloc(Page::layout()): the first node of the page bin, else a
\* page cut off the unused region, else null
Allocator_alloc(al) ==
    IF al.bin # << >>
    THEN [addr |-> Head(al.bin), al |-> [al EXCEPT !.bin = Tail(al.bin)]]
    ELSE IF al.start + PAGE_SIZE > al.end
         THEN [addr |-> 0, al |-> al]
         ELSE [addr |-> al.start, al |-> [al EXCEPT !.start = al.start + PAGE_SIZE]]

\* Allocator::dealloc(ptr, Page::layout()): push on the page bin
Allocator_dealloc(al, ptr) == [al EXCEPT !.bin = <<ptr>> \o al.bin]

\* number of L3 tables in a PageTable: l3: [L3PageTable; 2]
L3_TABLES == 2

\* PagePerm
PagePerms == {"RW", "RO", "RWX"}

\* PageTable::locate: the two index fields, then the two panics; idx is the
\* pair it returns
PageTable_locate(va) ==
    LET l2index == locate(va)[1]
        first_bits == va % PAGE_SIZE
    IN  IF l2index > 2
        THEN [panic |-> Some("l2_index > 8"), idx |-> locate(va)]
        ELSE IF first_bits # 0
        THEN [panic |-> Some("virtual address is not aligned"), idx |-> locate(va)]
        ELSE [panic |-> None, idx |-> locate(va)]

\* PageTable::is_valid(va): locate, then self.l3[l2index].entries[l3index],
\* an indexing that panics beyond the two L3 tables
PageTable_is_valid(tbl, va) ==
    LET loc == PageTable_locate(va) IN
    IF loc.panic # None THEN [panic |-> loc.panic, b |-> FALSE]
    ELSE IF loc.idx[1] >= L3_TABLES
    THEN [panic |-> Some("index out of bounds"), b |-> FALSE]
    ELSE [panic |-> None, b |-> is_valid(tbl[loc.idx])]

\* PageTable::is_invalid(va)
PageTable_is_invalid(tbl, va) ==
    LET v == PageTable_is_valid(tbl, va) IN [v EXCEPT !.b = ~v.b /\ v.panic = None]

\* PageTable::set_entry(va, entry)
PageTable_set_entry(tbl, va, entry) ==
    LET loc == PageTable_locate(va) IN
    IF loc.panic # None THEN [panic |-> loc.panic, tbl |-> tbl]
    ELSE IF loc.idx[1] >= L3_TABLES
    THEN [panic |-> Some("index out of bounds"), tbl |-> tbl]
    ELSE [panic |-> None, tbl |-> [tbl EXCEPT ![loc.idx] = entry]]

\* alloc that asks the allocator for the page before it looks at the slot
UserPageTable_alloc_late_check(tbl, al, va, perm) ==
    IF va < 0
    THEN [panic |-> Some("va < USER_IMG_BASE"), tbl |-> tbl, al |-> al,
          addr |-> 0, asked |-> FALSE]
    ELSE LET r == Allocator_alloc(al)
             v == PageTable_is_valid(tbl, va)
         IN  IF v.panic # None
             THEN [panic |-> v.panic, tbl |-> tbl, al |-> r.al, addr |-> 0, asked |-> TRUE]
             ELSE IF v.b
             THEN [panic |-> Some("va already allocated"), tbl |-> tbl, al |-> r.al,
                   addr |-> 0, asked |-> TRUE]
             ELSE IF r.addr = 0
             THEN [panic |-> Some("allocation failed"), tbl |-> tbl, al |-> r.al,
                   addr |-> 0, asked |-> TRUE]
             ELSE [panic |-> None,
                   tbl |-> PageTable_set_entry(tbl, va, RawL3Entry(r.addr)).tbl,
                   al |-> r.al, addr |-> r.addr, asked |-> TRUE]

\* UserPageTable::alloc(va, perm), va counted from USER_IMG_BASE so that an
\* address below the base is negative.  panic names the panic it stopped
\* at, asked tells whether ALLOCATOR.alloc was called, addr is the page the
\* returned slice covers.  perm is not read.
UserPageTable_alloc(tbl, al, va, perm) ==
    IF va < 0
    THEN [panic |-> Some("va < USER_IMG_BASE"), tbl |-> tbl, al |-> al,
          addr |-> 0, asked |-> FALSE]
    ELSE LET v == PageTable_is_valid(tbl, va) IN
         IF v.panic # None
         THEN [panic |-> v.panic, tbl |-> tbl, al |-> al, addr |-> 0, asked |-> FALSE]
         ELSE IF v.b
         THEN [panic |-> Some("va already allocated"), tbl |-> tbl, al |-> al,
               addr |-> 0, asked |-> FALSE]
         ELSE LET r == Allocator_alloc(al) IN
              IF r.addr = 0
              THEN [panic |-> Some("allocation failed"), tbl |-> tbl, al |-> r.al,
                    addr |-> 0, asked |-> TRUE]
              ELSE [panic |-> None,
                    tbl |-> PageTable_set_entry(tbl, va, RawL3Entry(r.addr)).tbl,
                    al |-> r.al, addr |-> r.addr, asked |-> TRUE]

\* UserPageTable::alloc returns (it does not panic) for va on table tbl
alloc_ok(tbl, al, va) ==
    /\ locate(va) \in DOMAIN tbl
    /\ UserPageTable_alloc(tbl, al, va, "RW").panic = None

\* the loop of Drop for UserPageTable from the n-th slot on; freed lists the
\* addresses passed to dealloc, in order
RECURSIVE drop_from(_, _, _)
drop_from(tbl, al, n) ==
    IF n > Len(Slots) THEN [al |-> al, freed |-> << >>]
    ELSE LET entry == tbl[Slots[n]] IN
         IF is_valid(entry)
         THEN LET addr == get_page_addr(entry)[1]
                  rest == CHOOSE res \in {drop_from(tbl, al2, n + 1) :
                                            al2 \in {Allocator_dealloc(al, addr)}} : TRUE
              IN  [rest EXCEPT !.freed = <<addr>> \o @]
         ELSE drop_from(tbl, al, n + 1)

\* drop that stops after the first L3 table
UserPageTable_drop_first_l3(tbl, al) ==
    LET r == drop_from([s \in DOMAIN tbl |-> IF s[1] = 0 THEN tbl[s] ELSE 0], al, 1)
    IN  r

\* Drop for UserPageTable
UserPageTable_drop(tbl, al) == drop_from(tbl, al, 1)

\* ------------------------------------------------------- inputs of calls
\* trap frames a caller passes in: any thread id, any resume address
TFInputs == {TrapFrame(e, t, 0, 0) : e \in ELRs, t \in TPIDRs}

\* states a caller passes to schedule_out: Ready (timer tick) or the Waiting
\* state sys_sleep builds at the current time
StateInputs == {Ready} \cup {Waiting(now, ms) : ms \in 0..MaxSleep}

Call(op, st, ret) == [op |-> op, st |-> st, ret |-> ret, skipped |-> 0, from |-> Ready]

\* the process objects queued in q, front first
Pids(q) == [n \in 1..Len(q) |-> q[n].pid]

\* position (0-based) in queue q of the process object pid
RECURSIVE IndexOf(_, _)
IndexOf(q, pid) ==
    IF q = << >> THEN 0
    ELSE IF Head(q).pid = pid THEN 0 ELSE 1 + IndexOf(Tail(q), pid)

\* Mutex::new, on cores whose MMU is not ready yet
MutexNew ==
    /\ lock = FALSE
    /\ owner = NoOwner
    /\ mmu_ready = [c \in Cores |-> FALSE]
    /\ mpc = [c \in Cores |-> "idle"]
    /\ guards = [c \in Cores |-> 0]

\* a page-table operation and what it did
VmCall(op, pid, addr, freed) == [op |-> op, pid |-> pid, addr |-> addr, freed |-> freed]

\* no Process exists and the allocator is new
VmInit ==
    /\ vmap = << >>
    /\ got = << >>
    /\ allocator = AllocatorNew
    /\ nproc = 0
    /\ vmlast = VmCall("new", 0, 0, << >>)

\* no StackVec, no kernel page table and no load in progress
LibIdle ==
    /\ stackvec = [storage |-> << >>, len |-> 0]
    /\ kept = [vals |-> << >>, op |-> "none", arg |-> 0]
    /\ kpt = [op |-> "none"]
    /\ ld = [op |-> "none"]

\* no core has entered the GlobalScheduler
CoresIdle ==
    /\ pc = [c \in Cores |-> "boot"]
    /\ ctf = [c \in Cores |-> DefaultTrapFrame]
    /\ arg = [c \in Cores |-> Ready]
    /\ rid = [c \in Cores |-> None]

\* Scheduler::new
SchedulerNew ==
    /\ processes = << >>
    /\ last_id = None
    /\ tf = DefaultTrapFrame
    /\ last = Call("new", Ready, None)
    /\ adds = 0

\* add(process) with a process as Process::new makes it, resuming at e
DoAdd(e) ==
    LET r == add(processes, last_id, Process(adds + 1, TrapFrame(e, 0, 0, 0), Ready))
    IN  /\ processes' = r.processes
        /\ last_id' = r.last_id
        /\ last' = Call("add", Ready, r.ret)
        /\ adds' = adds + 1
        /\ tf' = tf

\* schedule_out(st, t)
DoScheduleOut(st, t) ==
    LET r == schedule_out(processes, st, t) IN
    /\ processes' = r.processes
    /\ tf' = t
    /\ last' = Call("schedule_out", st, Some(r.ret))
    /\ UNCHANGED <<last_id, adds>>

\* switch_to(tf) on the caller's frame
DoSwitchTo ==
    LET r == switch_to(processes, tf, now)
        k == IF r.ret = None THEN Len(processes)
             ELSE IndexOf(processes, Head(r.processes).pid)
    IN  /\ processes' = r.processes
        /\ tf' = r.tf
        /\ last' = [Call("switch_to", Ready, r.ret) EXCEPT
                      !.skipped = k,
                      !.from = IF r.ret = None THEN Ready ELSE processes[k + 1].state]
        /\ UNCHANGED <<last_id, adds>>

\* kill(t)
DoKill(t) ==
    LET r == kill(processes, t) IN
    /\ processes' = r.processes
    /\ tf' = t
    /\ last' = Call("kill", Dead, r.ret)
    /\ UNCHANGED <<last_id, adds>>

\* ------------------------------------------- the Scheduler called directly
Init ==
    /\ SchedulerNew
    /\ now = 0
    /\ calls = 0
    /\ target = 0
    /\ log = << >>
    /\ saved = << >>
    /\ passed = << >>
    /\ LibIdle
    /\ timer = TimerOff
    /\ MutexNew
    /\ CoresIdle
    /\ VmInit

Add ==
    /\ calls < MaxCalls
    /\ adds < MaxAdds
    /\ calls' = calls + 1
    /\ \E e \in ELRs : DoAdd(e)
    /\ UNCHANGED <<now, rrVars, irqVars, libVars, vmVars, mutexVars, coreVars>>

ScheduleOut ==
    /\ calls < MaxCalls
    /\ calls' = calls + 1
    /\ \E st \in StateInputs, t \in TFInputs \cup {tf} : DoScheduleOut(st, t)
    /\ UNCHANGED <<now, rrVars, irqVars, libVars, vmVars, mutexVars, coreVars>>

SwitchTo ==
    /\ calls < MaxCalls
    /\ calls' = calls + 1
    /\ DoSwitchTo
    /\ UNCHANGED <<now, rrVars, irqVars, libVars, vmVars, mutexVars, coreVars>>

Kill ==
    /\ calls < MaxCalls
    /\ calls' = calls + 1
    /\ \E t \in TFInputs \cup {tf} : DoKill(t)
    /\ UNCHANGED <<now, rrVars, irqVars, libVars, vmVars, mutexVars, coreVars>>

\* the timer advances
Tick ==
    /\ now < MaxTime
    /\ now' = now + 1
    /\ UNCHANGED <<schedVars, calls, rrVars, irqVars, libVars, vmVars, mutexVars, coreVars>>

Next == Add \/ ScheduleOut \/ SwitchTo \/ Kill \/ Tick

Spec == Init /\ [][Next]_vars

\* -------------------------------------------- find_process after an add
\* find_process(t) right after an add, with a trap frame that carries the id
\* add returned
FindProcess ==
    /\ last.op = "add"
    /\ calls < MaxCalls
    /\ calls' = calls + 1
    /\ \E e \in ELRs :
         LET t == TrapFrame(e, last.ret[1], 0, 0)
             r == find_process(processes, t)
         IN  /\ tf' = t
             /\ last' = Call("find_process", Ready,
                             IF r = None THEN None ELSE Some(r[1].pid))
    /\ UNCHANGED <<processes, last_id, adds>>
    /\ UNCHANGED <<now, rrVars, irqVars, libVars, vmVars, mutexVars, coreVars>>

NextFind == Add \/ ScheduleOut \/ SwitchTo \/ Kill \/ FindProcess

SpecFind == Init /\ [][NextFind]_vars

\* ------------------- round robin: N adds, then switch_to / schedule_out cycles
InitRR ==
    /\ SchedulerNew
    /\ now = 0
    /\ calls = 0
    /\ target \in 1..MaxN
    /\ log = << >>
    /\ saved = << >>
    /\ passed = << >>
    /\ LibIdle
    /\ timer = TimerOff
    /\ MutexNew
    /\ CoresIdle
    /\ VmInit

RRAdd ==
    /\ adds < target
    /\ \E e \in ELRs : DoAdd(e)
    /\ UNCHANGED <<now, calls, rrVars, irqVars, libVars, vmVars, mutexVars, coreVars>>

RRSwitchTo ==
    /\ adds = target
    /\ last.op \in {"add", "schedule_out"}
    /\ Len(log) < MaxCycles
    /\ DoSwitchTo
    /\ log' = Append(log, last'.ret)
    /\ UNCHANGED <<now, calls, target, saved, passed, irqVars, libVars, vmVars, mutexVars, coreVars>>

\* the selected process ran up to address e and is preempted
RRScheduleOut ==
    /\ last.op = "switch_to"
    /\ \E e \in ELRs : DoScheduleOut(Ready, [tf EXCEPT !.ELR = e])
    /\ UNCHANGED <<now, calls, rrVars, irqVars, libVars, vmVars, mutexVars, coreVars>>

NextRR == RRAdd \/ RRSwitchTo \/ RRScheduleOut

SpecRR == InitRR /\ [][NextRR]_vars

\* ------------------------------------------------------------------ Mutex
\* Mutex::try_lock, step by step.  On the MMU-ready path the swap is one
\* atomic step and the owner is stored after it; on the other path the lock
\* and the owner are loaded and stored one after the other.
TryLock(c) ==
    /\ mpc[c] = "idle"
    /\ guards[c] < MaxGuards
    /\ IF mmu_ready[c]
       THEN IF ~lock
            THEN lock' = TRUE /\ mpc' = [mpc EXCEPT ![c] = "store_owner"]
            ELSE UNCHANGED <<lock, mpc>>
       ELSE /\ lock' = lock
            /\ IF c = 0
               THEN IF ~lock
                    THEN mpc' = [mpc EXCEPT ![c] = "store_lock"]
                    ELSE mpc' = [mpc EXCEPT ![c] = "load_owner"]
               ELSE mpc' = mpc
    /\ UNCHANGED <<owner, mmu_ready, guards>>
    /\ UNCHANGED <<schedVars, now, calls, rrVars, irqVars, libVars, vmVars, coreVars>>

\* the second operand of || on the path without MMU: owner.load() == cpu
LoadOwner(c) ==
    /\ mpc[c] = "load_owner"
    /\ mpc' = [mpc EXCEPT ![c] = IF owner = c THEN "store_lock" ELSE "idle"]
    /\ UNCHANGED <<lock, owner, mmu_ready, guards>>
    /\ UNCHANGED <<schedVars, now, calls, rrVars, irqVars, libVars, vmVars, coreVars>>

\* self.lock.store(true)
StoreLock(c) ==
    /\ mpc[c] = "store_lock"
    /\ lock' = TRUE
    /\ mpc' = [mpc EXCEPT ![c] = "store_owner"]
    /\ UNCHANGED <<owner, mmu_ready, guards>>
    /\ UNCHANGED <<schedVars, now, calls, rrVars, irqVars, libVars, vmVars, coreVars>>

\* self.owner.store(cpu); Some(MutexGuard { lock: &self })
StoreOwner(c) ==
    /\ mpc[c] = "store_owner"
    /\ owner' = c
    /\ guards' = [guards EXCEPT ![c] = @ + 1]
    /\ mpc' = [mpc EXCEPT ![c] = "idle"]
    /\ UNCHANGED <<lock, mmu_ready>>
    /\ UNCHANGED <<schedVars, now, calls, rrVars, irqVars, libVars, vmVars, coreVars>>

\* MutexGuard::drop, which calls Mutex::unlock
DropGuard(c) ==
    /\ mpc[c] = "idle"
    /\ guards[c] > 0
    /\ lock' = FALSE
    /\ guards' = [guards EXCEPT ![c] = @ - 1]
    /\ UNCHANGED <<owner, mmu_ready, mpc>>
    /\ UNCHANGED <<schedVars, now, calls, rrVars, irqVars, libVars, vmVars, coreVars>>

\* the core turns its MMU on
SetMmuReady(c) ==
    /\ ~mmu_ready[c]
    /\ mmu_ready' = [mmu_ready EXCEPT ![c] = TRUE]
    /\ UNCHANGED <<lock, owner, mpc, guards>>
    /\ UNCHANGED <<schedVars, now, calls, rrVars, irqVars, libVars, vmVars, coreVars>>

NextMutex ==
    \/ \E c \in Cores : TryLock(c)
    \/ \E c \in Cores : LoadOwner(c)
    \/ \E c \in Cores : StoreLock(c)
    \/ \E c \in Cores : StoreOwner(c)
    \/ \E c \in Cores : DropGuard(c)
    \/ \E c \in Cores : SetMmuReady(c)

SpecMutex == Init /\ [][NextMutex]_vars

\* ------------------------------------------------------- GlobalScheduler
\* the outcome of Mutex::try_lock for core c when nothing interleaves with it
try_lock(c) ==
    IF mmu_ready[c] THEN ~lock
    ELSE c = 0 /\ (~lock \/ owner = c)

\* the cores enter the scheduler with their MMUs on
InitG ==
    /\ SchedulerNew
    /\ now = 0
    /\ calls = 0
    /\ target = 0
    /\ log = << >>
    /\ saved = << >>
    /\ passed = << >>
    /\ LibIdle
    /\ timer = TimerOff
    /\ lock = FALSE
    /\ owner = NoOwner
    /\ mmu_ready = [c \in Cores |-> TRUE]
    /\ mpc = [c \in Cores |-> "idle"]
    /\ guards = [c \in Cores |-> 0]
    /\ CoresIdle
    /\ VmInit

\* GlobalScheduler::critical, first half: self.0.lock() returns the guard
Acquire(c) ==
    /\ pc[c] \in {"add_lock", "start_lock", "so_lock", "st_lock", "kill_lock"}
    /\ try_lock(c)
    /\ lock' = TRUE
    /\ owner' = c
    /\ guards' = [guards EXCEPT ![c] = @ + 1]
    /\ pc' = [pc EXCEPT ![c] = CASE pc[c] = "add_lock" -> "add_crit"
                                 [] pc[c] = "start_lock" -> "start_crit"
                                 [] pc[c] = "so_lock" -> "so_crit"
                                 [] pc[c] = "st_lock" -> "st_crit"
                                 [] pc[c] = "kill_lock" -> "kill_crit"]
    /\ UNCHANGED <<schedVars, now, calls, rrVars, irqVars, libVars, vmVars, mmu_ready, mpc, ctf, arg, rid>>

\* GlobalScheduler::critical, second half: the closure has run and the guard
\* is dropped (Mutex::unlock)
Release(c) ==
    /\ lock' = FALSE
    /\ guards' = [guards EXCEPT ![c] = @ - 1]
    /\ UNCHANGED <<owner, mmu_ready, mpc>>

\* kernel code on the boot core, before it starts scheduling, calls add
BeginAdd(c) ==
    /\ c = 0
    /\ pc[c] = "boot"
    /\ adds < MaxBootAdds
    /\ pc' = [pc EXCEPT ![c] = "add_lock"]
    /\ UNCHANGED <<schedVars, now, calls, rrVars, irqVars, libVars, vmVars, mutexVars, ctf, arg, rid>>

\* GlobalScheduler::add
GlobalAdd(c) ==
    /\ pc[c] = "add_crit"
    /\ LET r == add(processes, last_id, Process(adds + 1, DefaultTrapFrame, Ready))
       IN  /\ processes' = r.processes
           /\ last_id' = r.last_id
    /\ adds' = adds + 1
    /\ Release(c)
    /\ pc' = [pc EXCEPT ![c] = "boot"]
    /\ UNCHANGED <<tf, last, now, calls, rrVars, irqVars, libVars, vmVars, ctf, arg, rid>>

\* GlobalScheduler::start is called
BeginStart(c) ==
    /\ pc[c] = "boot"
    /\ pc' = [pc EXCEPT ![c] = "start_lock"]
    /\ UNCHANGED <<schedVars, now, calls, rrVars, irqVars, libVars, vmVars, mutexVars, ctf, arg, rid>>

\* GlobalScheduler::start: switch_to into a fresh trap frame, result dropped,
\* then context_restore and eret with that frame
Start(c) ==
    /\ pc[c] = "start_crit"
    /\ LET r == switch_to(processes, DefaultTrapFrame, now) IN
         /\ processes' = r.processes
         /\ ctf' = [ctf EXCEPT ![c] = r.tf]
    /\ Release(c)
    /\ pc' = [pc EXCEPT ![c] = "user"]
    /\ UNCHANGED <<last_id, tf, last, adds, now, calls, rrVars, irqVars, libVars, vmVars, arg, rid>>

\* the Timer1 handler: SCHEDULER.switch(State::Ready, tf) on the frame the
\* trap captured; the process has run on from the image base
TimerIrq(c) ==
    /\ pc[c] = "user"
    /\ calls < MaxTraps
    /\ calls' = calls + 1
    /\ ctf' = [ctf EXCEPT ![c].ELR = 1]
    /\ arg' = [arg EXCEPT ![c] = Ready]
    /\ pc' = [pc EXCEPT ![c] = "so_lock"]
    /\ UNCHANGED <<schedVars, now, rrVars, irqVars, libVars, vmVars, mutexVars, rid>>

\* handle_syscall 1: sys_sleep(ms, tf) builds Waiting(sleep_fn) and calls
\* SCHEDULER.switch
SysSleep(c) ==
    /\ pc[c] = "user"
    /\ calls < MaxTraps
    /\ calls' = calls + 1
    /\ \E ms \in 0..MaxSleep : arg' = [arg EXCEPT ![c] = Waiting(now, ms)]
    /\ pc' = [pc EXCEPT ![c] = "so_lock"]
    /\ UNCHANGED <<schedVars, now, rrVars, irqVars, libVars, vmVars, mutexVars, ctf, rid>>

\* GlobalScheduler::switch, first statement: critical(schedule_out)
SwitchScheduleOut(c) ==
    /\ pc[c] = "so_crit"
    /\ LET r == schedule_out(processes, arg[c], ctf[c]) IN
         /\ processes' = r.processes
    /\ Release(c)
    /\ arg' = [arg EXCEPT ![c] = Ready]
    /\ pc' = [pc EXCEPT ![c] = "st_lock"]
    /\ UNCHANGED <<last_id, tf, last, adds, now, calls, rrVars, irqVars, libVars, vmVars, ctf, rid>>

\* GlobalScheduler::switch_to that returns after its first scan whatever
\* the scan found
ScanOnce(c) ==
    /\ pc[c] = "st_crit"
    /\ LET r == switch_to(processes, ctf[c], now) IN
         /\ processes' = r.processes
         /\ ctf' = [ctf EXCEPT ![c] = r.tf]
         /\ rid' = [rid EXCEPT ![c] = r.ret]
         /\ pc' = [pc EXCEPT ![c] = "user"]
    /\ Release(c)
    /\ UNCHANGED <<last_id, tf, last, adds, now, calls, rrVars, irqVars, libVars, vmVars, arg>>

\* the loop turn with the guard kept alive across wfi when the scan found
\* nothing
ScanHoldingLock(c) ==
    /\ pc[c] = "st_crit"
    /\ LET r == switch_to(processes, ctf[c], now) IN
         /\ processes' = r.processes
         /\ ctf' = [ctf EXCEPT ![c] = r.tf]
         /\ IF r.ret # None
            THEN /\ rid' = [rid EXCEPT ![c] = r.ret]
                 /\ pc' = [pc EXCEPT ![c] = "user"]
                 /\ Release(c)
            ELSE /\ rid' = rid
                 /\ pc' = [pc EXCEPT ![c] = "wfi"]
                 /\ UNCHANGED mutexVars
    /\ UNCHANGED <<last_id, tf, last, adds, now, calls, rrVars, irqVars, libVars, vmVars, arg>>

\* GlobalScheduler::switch_to, one turn of the loop: critical(switch_to),
\* return the id found or go on to wfi
Scan(c) ==
    /\ pc[c] = "st_crit"
    /\ LET r == switch_to(processes, ctf[c], now) IN
         /\ processes' = r.processes
         /\ ctf' = [ctf EXCEPT ![c] = r.tf]
         /\ IF r.ret # None
            THEN /\ rid' = [rid EXCEPT ![c] = r.ret]
                 /\ pc' = [pc EXCEPT ![c] = "user"]
            ELSE /\ rid' = rid
                 /\ pc' = [pc EXCEPT ![c] = "wfi"]
    /\ Release(c)
    /\ UNCHANGED <<last_id, tf, last, adds, now, calls, rrVars, irqVars, libVars, vmVars, arg>>

\* aarch64::wfi() returns: an interrupt has arrived
Wake(c) ==
    /\ pc[c] = "wfi"
    /\ pc' = [pc EXCEPT ![c] = "st_lock"]
    /\ UNCHANGED <<schedVars, now, calls, rrVars, irqVars, libVars, vmVars, mutexVars, ctf, arg, rid>>

\* the running process is to be killed
BeginKill(c) ==
    /\ pc[c] = "user"
    /\ calls < MaxTraps
    /\ calls' = calls + 1
    /\ pc' = [pc EXCEPT ![c] = "kill_lock"]
    /\ UNCHANGED <<schedVars, now, rrVars, irqVars, libVars, vmVars, mutexVars, ctf, arg, rid>>

\* GlobalScheduler::kill, followed by GlobalScheduler::switch_to
GlobalKill(c) ==
    /\ pc[c] = "kill_crit"
    /\ LET r == kill(processes, ctf[c]) IN
         /\ processes' = r.processes
    /\ Release(c)
    /\ pc' = [pc EXCEPT ![c] = "st_lock"]
    /\ UNCHANGED <<last_id, tf, last, adds, now, calls, rrVars, irqVars, libVars, vmVars, ctf, arg, rid>>

\* the timer advances
ClockTick ==
    /\ now < MaxTime
    /\ now' = now + 1
    /\ UNCHANGED <<schedVars, calls, rrVars, irqVars, libVars, vmVars, mutexVars, coreVars>>

\* the steps of core c when its processes are preempted only by the timer
PreemptStep(c) ==
    \/ BeginAdd(c)
    \/ BeginStart(c)
    \/ Acquire(c)
    \/ GlobalAdd(c)
    \/ Start(c)
    \/ TimerIrq(c)
    \/ SwitchScheduleOut(c)
    \/ Scan(c)
    \/ Wake(c)
    \/ BeginKill(c)
    \/ GlobalKill(c)

\* the steps of core c
CoreStep(c) == PreemptStep(c) \/ SysSleep(c)

NextG == \E c \in Cores : PreemptStep(c)

\* all cores schedule
SpecG == InitG /\ [][NextG]_vars

NextG1 == ClockTick \/ CoreStep(0)

\* core 0 alone schedules, as the kernel runs it
SpecG1 == InitG /\ [][NextG1]_vars

\* core 0 keeps executing and interrupts keep arriving
SpecG1Fair == SpecG1 /\ WF_vars(CoreStep(0))

\* ------------------------------------- the boot core and the Timer1 interrupt
\* GlobalScheduler::initialize_global_timer_interrupt, when kernel code calls
\* it before start: register the handler, enable Timer1, tick_in(TICK)
InitTimer(c) ==
    /\ pc[c] = "boot"
    /\ ~timer.registered
    /\ timer' = [registered |-> TRUE, enabled |-> TRUE, armed |-> TRUE,
                 handling |-> FALSE]
    /\ UNCHANGED <<schedVars, now, calls, rrVars, libVars, vmVars, mutexVars, coreVars>>

\* the match set by tick_in arrives while the core is in user mode: the
\* registered handler runs and calls SCHEDULER.switch(State::Ready, tf)
TimerFires(c) ==
    /\ pc[c] = "user"
    /\ timer.registered /\ timer.enabled /\ timer.armed
    /\ calls < MaxTraps
    /\ calls' = calls + 1
    /\ timer' = [timer EXCEPT !.armed = FALSE, !.handling = TRUE]
    /\ ctf' = [ctf EXCEPT ![c].ELR = 1]
    /\ arg' = [arg EXCEPT ![c] = Ready]
    /\ pc' = [pc EXCEPT ![c] = "so_lock"]
    /\ UNCHANGED <<schedVars, now, rrVars, libVars, vmVars, mutexVars, rid>>

\* GlobalScheduler::switch_to, one turn of the loop: the id found is
\* returned to sys_sleep, which returns to user mode, or to the timer
\* handler, which goes on to tick_in
HandlerScan(c) ==
    /\ pc[c] = "st_crit"
    /\ LET r == switch_to(processes, ctf[c], now) IN
         /\ processes' = r.processes
         /\ ctf' = [ctf EXCEPT ![c] = r.tf]
         /\ IF r.ret # None
            THEN /\ rid' = [rid EXCEPT ![c] = r.ret]
                 /\ pc' = [pc EXCEPT ![c] = IF timer.handling THEN "tick_in"
                                             ELSE "user"]
            ELSE /\ rid' = rid
                 /\ pc' = [pc EXCEPT ![c] = "wfi"]
    /\ Release(c)
    /\ UNCHANGED <<last_id, tf, last, adds, now, calls, rrVars, irqVars, libVars, vmVars, arg>>

\* the handler's tick_in(TICK) sets the next match; the handler returns and
\* the trap exit restores the frame
Rearm(c) ==
    /\ pc[c] = "tick_in"
    /\ timer' = [timer EXCEPT !.armed = TRUE, !.handling = FALSE]
    /\ pc' = [pc EXCEPT ![c] = "user"]
    /\ UNCHANGED <<schedVars, now, calls, rrVars, libVars, vmVars, mutexVars, ctf, arg, rid>>

\* aarch64::wfi() returns when an interrupt is pending: the Timer1 match
\* the handler has not yet replaced, or the one that is armed
TimerWake(c) ==
    /\ pc[c] = "wfi"
    /\ timer.handling \/ timer.armed
    /\ pc' = [pc EXCEPT ![c] = "st_lock"]
    /\ UNCHANGED <<schedVars, now, calls, rrVars, irqVars, libVars, vmVars, mutexVars, ctf, arg, rid>>

\* the steps of the boot core: adds, perhaps the timer set-up, start, and
\* from then on the sleep calls of the processes and the timer interrupt
BootStep(c) ==
    \/ BeginAdd(c)
    \/ GlobalAdd(c)
    \/ InitTimer(c)
    \/ BeginStart(c)
    \/ Acquire(c)
    \/ Start(c)
    \/ TimerFires(c)
    \/ SwitchScheduleOut(c)
    \/ SysSleep(c)
    \/ HandlerScan(c)
    \/ TimerWake(c)
    \/ Rearm(c)

NextBoot == ClockTick \/ BootStep(0)

SpecBoot == InitG /\ [][NextBoot]_vars

\* ------------------------------------------- Process::is_ready on its own
\* every State a process can be in at time t: Ready, Running, Dead, and the
\* Waiting states sys_sleep built at some time up to t
States(t) == {Ready, Running, Dead} \cup
             {Waiting(s, ms) : s \in 0..t, ms \in 0..MaxSleep}

\* one process, as Process::new and Scheduler::add leave it, in any state
InitP ==
    /\ \E e \in ELRs, st \in States(0) :
         processes = <<Process(1, TrapFrame(e, 1, 0, 0), st)>>
    /\ last_id = Some(1)
    /\ tf = DefaultTrapFrame
    /\ last = Call("new", Ready, None)
    /\ adds = 1
    /\ now = 0
    /\ calls = 0
    /\ target = 0
    /\ log = << >>
    /\ saved = << >>
    /\ passed = << >>
    /\ LibIdle
    /\ timer = TimerOff
    /\ MutexNew
    /\ CoresIdle
    /\ VmInit

\* process.is_ready()
IsReady ==
    /\ calls < MaxCalls
    /\ calls' = calls + 1
    /\ LET ir == is_ready(Head(processes), now) IN
         /\ processes' = <<ir.p>>
         /\ last' = [Call("is_ready", Ready, Some(ir.b)) EXCEPT
                       !.from = Head(processes).state]
    /\ UNCHANGED <<last_id, tf, adds, now, rrVars, irqVars, libVars, vmVars, mutexVars, coreVars>>

\* the scheduler or a system call assigns process.state
SetState ==
    /\ calls < MaxCalls
    /\ calls' = calls + 1
    /\ \E st \in States(now) :
         /\ processes' = <<[Head(processes) EXCEPT !.state = st]>>
         /\ last' = Call("set_state", st, None)
    /\ UNCHANGED <<last_id, tf, adds, now, rrVars, irqVars, libVars, vmVars, mutexVars, coreVars>>

NextP == IsReady \/ SetState \/ Tick

SpecP == InitP /\ [][NextP]_vars

\* ------------------------------------------ processes and their page tables
\* f with the value v at the new or old argument p
Put(f, p, v) == [x \in DOMAIN f \cup {p} |-> IF x = p THEN v ELSE f[x]]

\* f without the argument p
Without(f, p) == [x \in DOMAIN f \ {p} |-> f[x]]

\* the Process objects that exist and are not in the scheduler's queue
Staged == DOMAIN vmap \ Range(Pids(processes))

\* Process::new: a process with an empty UserPageTable, held by its creator
NewProcess ==
    /\ nproc < MaxProcs
    /\ nproc' = nproc + 1
    /\ vmap' = Put(vmap, nproc + 1, EmptyTable)
    /\ got' = Put(got, nproc + 1, << >>)
    /\ vmlast' = VmCall("new", nproc + 1, 0, << >>)
    /\ UNCHANGED <<allocator, schedVars, now, calls, rrVars, irqVars, libVars, mutexVars, coreVars>>

\* process.vmap.alloc(va, perm), by the loader or by kernel code that holds
\* the process
VmAlloc ==
    \E p \in DOMAIN vmap, n \in DOMAIN VAs :
      /\ alloc_ok(vmap[p], allocator, VAs[n])
      /\ LET r == UserPageTable_alloc(vmap[p], allocator, VAs[n],
                                       IF n <= MaxImagePages THEN "RWX" ELSE "RW") IN
           /\ vmap' = [vmap EXCEPT ![p] = r.tbl]
           /\ allocator' = r.al
           /\ got' = [got EXCEPT ![p] = Append(@, r.addr)]
           /\ vmlast' = VmCall("alloc", p, r.addr, << >>)
      /\ UNCHANGED <<nproc, schedVars, now, calls, rrVars, irqVars, libVars, mutexVars, coreVars>>

\* the Process object p goes out of scope: its UserPageTable is dropped
DropProcess(p, op) ==
    LET r == UserPageTable_drop(vmap[p], allocator) IN
    /\ vmap' = Without(vmap, p)
    /\ got' = Without(got, p)
    /\ allocator' = r.al
    /\ vmlast' = VmCall(op, p, 0, r.freed)

\* a process that was never scheduled is dropped, as when do_load fails
\* after its first alloc calls
VmDrop ==
    /\ \E p \in Staged : DropProcess(p, "drop")
    /\ UNCHANGED <<nproc, schedVars, now, calls, rrVars, irqVars, libVars, mutexVars, coreVars>>

\* Scheduler::add of a process its creator held
VmAdd ==
    /\ \E p \in Staged :
         LET r == add(processes, last_id, Process(p, DefaultTrapFrame, Ready)) IN
         /\ processes' = r.processes
         /\ last_id' = r.last_id
         /\ vmlast' = VmCall("add", p, 0, << >>)
    /\ adds' = adds + 1
    /\ UNCHANGED <<vmap, got, allocator, nproc, tf, last, now, calls,
                   rrVars, irqVars, libVars, mutexVars, coreVars>>

\* Scheduler::kill(tf) on the caller's frame: the process it popped is
\* dropped when it returns
VmKill ==
    /\ LET r == kill(processes, tf) IN
         /\ processes' = r.processes
         /\ IF r.dropped # None
            THEN DropProcess(r.dropped[1], "kill")
            ELSE /\ vmlast' = VmCall("kill", 0, 0, << >>)
                 /\ UNCHANGED <<vmap, got, allocator>>
    /\ UNCHANGED <<nproc, last_id, tf, last, adds, now, calls, rrVars, irqVars, libVars, mutexVars, coreVars>>

NextVm == NewProcess \/ VmAlloc \/ VmDrop \/ VmAdd \/ VmKill

SpecVm == Init /\ [][NextVm]_vars

\* ------------------------------------------------- one PageTable on its own
\* L3 indices the addresses passed in carry: the first and the last entry
PtL3s == {0, L3_ENTRIES - 1}

\* addresses passed to locate, is_valid and set_entry: L2 indices in and
\* beyond the two L3 tables, aligned and one byte off
PtVAs == {l2 * (L3_ENTRIES * PAGE_SIZE) + l3 * PAGE_SIZE + off :
            l2 \in 0..3, l3 \in PtL3s, off \in {0, 1}}

\* addresses passed to alloc, counted from USER_IMG_BASE: those and a page
\* below the base
PtAllocVAs == PtVAs \cup {0 - PAGE_SIZE}

\* the L3 entries those addresses name in the two L3 tables
PtSlots == {<<l2, l3>> : l2 \in 0..(L3_TABLES - 1), l3 \in PtL3s}

\* entries passed to set_entry: RawL3Entry::new(0) and a valid entry
PtEntries == {0, RawL3Entry(POOL_START)}

\* PageTable::new: every entry of both L3 tables is L3Entry::new(0)
PtEmptyTable == [s \in PtSlots |-> 0]

\* a call on the page table and what it returned
PtNoCall == [op |-> "new", va |-> 0, perm |-> "RW", entry |-> 0, panic |-> None,
             addr |-> 0, asked |-> FALSE, idx |-> <<0, 0>>, b |-> FALSE]

\* UserPageTable::new and Allocator::new
InitPt ==
    /\ SchedulerNew
    /\ now = 0
    /\ calls = 0
    /\ target = 0
    /\ log = << >>
    /\ saved = << >>
    /\ passed = << >>
    /\ LibIdle
    /\ timer = TimerOff
    /\ MutexNew
    /\ CoresIdle
    /\ vmap = [p \in {1} |-> PtEmptyTable]
    /\ got = [p \in {1} |-> << >>]
    /\ allocator = AllocatorNew
    /\ nproc = 1
    /\ vmlast = PtNoCall

\* no panic has halted the kernel
PtLive == vmlast.panic = None

\* vmap.alloc(va, perm)
PtAlloc ==
    /\ PtLive
    /\ \E va \in PtAllocVAs, perm \in PagePerms :
         LET r == UserPageTable_alloc(vmap[1], allocator, va, perm) IN
         /\ vmap' = [vmap EXCEPT ![1] = r.tbl]
         /\ allocator' = r.al
         /\ got' = IF r.panic = None THEN [got EXCEPT ![1] = Append(@, r.addr)] ELSE got
         /\ vmlast' = [PtNoCall EXCEPT !.op = "alloc", !.va = va, !.perm = perm,
                                       !.panic = r.panic, !.addr = r.addr,
                                       !.asked = r.asked]
    /\ UNCHANGED <<nproc, schedVars, now, calls, rrVars, irqVars, libVars, mutexVars, coreVars>>

\* vmap.set_entry(va, entry)
PtSetEntry ==
    /\ PtLive
    /\ \E va \in PtVAs, entry \in PtEntries :
         LET r == PageTable_set_entry(vmap[1], va, entry) IN
         /\ vmap' = [vmap EXCEPT ![1] = r.tbl]
         /\ vmlast' = [PtNoCall EXCEPT !.op = "set_entry", !.va = va,
                                       !.entry = entry, !.panic = r.panic]
    /\ UNCHANGED <<got, allocator, nproc, schedVars, now, calls, rrVars, irqVars, libVars,
                   mutexVars, coreVars>>

\* vmap.locate(va)
PtLocate ==
    /\ PtLive
    /\ \E va \in PtVAs :
         LET r == PageTable_locate(va) IN
         vmlast' = [PtNoCall EXCEPT !.op = "locate", !.va = va,
                                    !.panic = r.panic,
                                    !.idx = IF r.panic = None THEN r.idx ELSE <<0, 0>>]
    /\ UNCHANGED <<vmap, got, allocator, nproc, schedVars, now, calls, rrVars, irqVars, libVars,
                   mutexVars, coreVars>>

\* vmap.is_valid(va)
PtIsValid ==
    /\ PtLive
    /\ \E va \in PtVAs :
         LET r == PageTable_is_valid(vmap[1], va) IN
         vmlast' = [PtNoCall EXCEPT !.op = "is_valid", !.va = va,
                                    !.panic = r.panic, !.b = r.b]
    /\ UNCHANGED <<vmap, got, allocator, nproc, schedVars, now, calls, rrVars, irqVars, libVars,
                   mutexVars, coreVars>>

\* vmap.is_invalid(va)
PtIsInvalid ==
    /\ PtLive
    /\ \E va \in PtVAs :
         LET r == PageTable_is_invalid(vmap[1], va) IN
         vmlast' = [PtNoCall EXCEPT !.op = "is_invalid", !.va = va,
                                    !.panic = r.panic, !.b = r.b]
    /\ UNCHANGED <<vmap, got, allocator, nproc, schedVars, now, calls, rrVars, irqVars, libVars,
                   mutexVars, coreVars>>

NextPt == PtAlloc \/ PtSetEntry \/ PtLocate \/ PtIsValid \/ PtIsInvalid

SpecPt == InitPt /\ [][NextPt]_vars

\* -------------------------------------- context switches with whole frames
\* values a register can hold when a trap captures the frame
Stamps == {1, 2}

\* the frame a trap captures from the process on the CPU: its thread id, and
\* v in every other field
Captured(v, id) == FullFrame(v, v, v, id, v, v, v, v, v, v, v)

\* the frame Process::load sets up for the n-th process: image base, SPSR
\* flags, stack top and the two table bases
Loaded(n) == FullFrame(0, 3, 3, 0, 3, 3 + n, 0, 0, 0, 0, 0)

\* a process is on the CPU: the last scheduler call was a switch_to that
\* selected it
OnCpu == last.op = "switch_to" /\ last.ret # None

\* add(process) with a loaded process
CtxAdd ==
    /\ adds < MaxProcs
    /\ LET r == add(processes, last_id, Process(adds + 1, Loaded(adds + 1), Ready))
       IN  /\ processes' = r.processes
           /\ last_id' = r.last_id
           /\ last' = IF OnCpu THEN last ELSE Call("add", Ready, r.ret)
    /\ adds' = adds + 1
    /\ UNCHANGED <<tf, saved, passed, now, calls, target, log, irqVars, libVars, vmVars, mutexVars, coreVars>>

\* the switch_to of start, of switch (repeated while it returns None) and
\* the one that follows kill
CtxSwitchTo ==
    /\ \/ last.op \in {"add", "schedule_out", "kill"}
       \/ last.op = "switch_to" /\ last.ret = None
    /\ DoSwitchTo
    /\ UNCHANGED <<saved, passed, now, calls, target, log, irqVars, libVars, vmVars, mutexVars, coreVars>>

\* a trap captures the frame of the process on the CPU and the handler calls
\* schedule_out(st, frame): the timer with Ready, sys_sleep with Waiting
CtxScheduleOut ==
    /\ OnCpu
    /\ calls < MaxTraps
    /\ calls' = calls + 1
    /\ \E v \in Stamps, st \in StateInputs :
         /\ DoScheduleOut(st, Captured(v, tf.TPIDR))
         /\ saved' = Put(saved, Head(processes).pid,
                         IF st = Ready THEN Some(Captured(v, tf.TPIDR)) ELSE None)
    /\ UNCHANGED <<now, target, log, passed, irqVars, libVars, vmVars, mutexVars, coreVars>>

\* a trap captures the frame of the process on the CPU and the handler calls
\* kill(frame)
CtxKill ==
    /\ OnCpu
    /\ calls < MaxTraps
    /\ calls' = calls + 1
    /\ \E v \in Stamps :
         /\ DoKill(Captured(v, tf.TPIDR))
         /\ saved' = Without(saved, Head(processes).pid)
    /\ UNCHANGED <<now, target, log, passed, irqVars, libVars, vmVars, mutexVars, coreVars>>

NextCtx == CtxAdd \/ CtxSwitchTo \/ CtxScheduleOut \/ CtxKill \/ Tick

SpecCtx == Init /\ [][NextCtx]_vars

\* ------------------------------------ switch_to / schedule_out cycles
\* Cycles of switch_to and schedule_out with no kill: the process switch_to
\* selected runs, a trap captures its frame and schedule_out puts it back as
\* Ready or as Waiting; processes are added at any time and sleepers wake as
\* the timer advances.

\* add(process) at any point of the cycle
CyAdd ==
    /\ adds < MaxAdds
    /\ LET r == add(processes, last_id, Process(adds + 1, DefaultTrapFrame, Ready))
       IN  /\ processes' = r.processes
           /\ last_id' = r.last_id
           /\ last' = IF OnCpu THEN last ELSE Call("add", Ready, r.ret)
    /\ adds' = adds + 1
    /\ passed' = Put(passed, adds + 1, 0)
    /\ UNCHANGED <<tf, now, calls, target, log, saved, irqVars, libVars, vmVars, mutexVars, coreVars>>

\* switch_to when no process is on the CPU; every Ready process it did not
\* select has been passed over once more
CySwitchTo ==
    /\ ~OnCpu
    /\ DoSwitchTo
    /\ passed' = IF last'.ret = None THEN passed
                 ELSE [pid \in DOMAIN passed |->
                         IF pid # Head(processes').pid
                            /\ \E n \in 1..Len(processes) :
                                 processes[n].pid = pid /\ processes[n].state = Ready
                         THEN passed[pid] + 1
                         ELSE 0]
    /\ UNCHANGED <<now, calls, target, log, saved, irqVars, libVars, vmVars, mutexVars, coreVars>>

\* a trap captures the frame of the process on the CPU and the handler calls
\* schedule_out(st, frame)
CyScheduleOut ==
    /\ OnCpu
    /\ calls < MaxTraps
    /\ calls' = calls + 1
    /\ \E st \in StateInputs : DoScheduleOut(st, tf)
    /\ passed' = [passed EXCEPT ![Head(processes).pid] = 0]
    /\ UNCHANGED <<now, target, log, saved, irqVars, libVars, vmVars, mutexVars, coreVars>>

NextCycle == CyAdd \/ CySwitchTo \/ CyScheduleOut \/ Tick

SpecCycle == Init /\ [][NextCycle]_vars

\* ---------------------------------------------------------------- StackVec
\* values pushed onto the vector; the backing slice starts out filled with 0
SvValues == {1, 2}

\* StackVec::new
StackVec_new(storage) == [storage |-> storage, len |-> 0]

\* StackVec::capacity
StackVec_capacity(v) == Len(v.storage)

\* StackVec::truncate
StackVec_truncate(v, len) ==
    IF len < Len(v.storage) THEN [v EXCEPT !.len = len] ELSE v

\* StackVec::is_full
StackVec_is_full(v) == Len(v.storage) = v.len

\* StackVec::push; storage[self.len] is the slot at 1-based position len + 1
StackVec_push(v, value) ==
    IF StackVec_is_full(v) THEN [v |-> v, ok |-> FALSE]
    ELSE [v |-> [storage |-> [v.storage EXCEPT ![v.len + 1] = value],
                 len |-> v.len + 1],
          ok |-> TRUE]

\* StackVec::pop
StackVec_pop(v) ==
    IF v.len = 0 THEN [v |-> v, ret |-> None]
    ELSE [v |-> [v EXCEPT !.len = v.len - 1], ret |-> Some(v.storage[v.len])]

\* a new StackVec over a zeroed slice of 1..MaxCap elements
InitSV ==
    /\ SchedulerNew
    /\ now = 0
    /\ calls = 0
    /\ target = 0
    /\ log = << >>
    /\ saved = << >>
    /\ passed = << >>
    /\ timer = TimerOff
    /\ MutexNew
    /\ CoresIdle
    /\ VmInit
    /\ \E cap \in 1..MaxCap : stackvec = StackVec_new([i \in 1..cap |-> 0])
    /\ kept = [vals |-> << >>, op |-> "new", arg |-> 0]
    /\ kpt = [op |-> "none"]
    /\ ld = [op |-> "none"]

SvPush ==
    /\ \E value \in SvValues :
         LET r == StackVec_push(stackvec, value) IN
         /\ stackvec' = r.v
         /\ kept' = [vals |-> IF r.ok THEN Append(kept.vals, value) ELSE kept.vals,
                     op |-> "push", arg |-> value]
    /\ UNCHANGED <<schedVars, now, calls, rrVars, irqVars, kpt, ld, vmVars, mutexVars,
                   coreVars>>

SvPop ==
    /\ stackvec' = StackVec_pop(stackvec).v
    /\ kept' = [vals |-> IF kept.vals = << >> THEN << >>
                         ELSE SubSeq(kept.vals, 1, Len(kept.vals) - 1),
                op |-> "pop", arg |-> 0]
    /\ UNCHANGED <<schedVars, now, calls, rrVars, irqVars, kpt, ld, vmVars, mutexVars,
                   coreVars>>

SvTruncate ==
    /\ \E len \in 0..MaxCap + 1 :
         /\ stackvec' = StackVec_truncate(stackvec, len)
         /\ kept' = [vals |-> IF len < Len(kept.vals) THEN SubSeq(kept.vals, 1, len)
                              ELSE kept.vals,
                     op |-> "truncate", arg |-> len]
    /\ UNCHANGED <<schedVars, now, calls, rrVars, irqVars, kpt, ld, vmVars, mutexVars,
                   coreVars>>

NextSV == SvPush \/ SvPop \/ SvTruncate

SpecSV == InitSV /\ [][NextSV]_vars

\* ----------------------------------------------------------- KernPageTable
\* IO_BASE and IO_BASE_END, 0xFE00_0000 and 0x1_0000_0000, counted in pages
\* of PAGE_SIZE bytes
IO_BASE == 65024
IO_BASE_END == 65536

\* the low bits of the entries KernPageTable::new builds: VALID, the entry
\* type, KERN_RW and the access flag, with normal memory and inner shareable
\* for RAM, device memory and outer shareable for the I/O range
KERN_MEM_BITS == 1795
KERN_DEV_BITS == 1543

\* the end of usable memory that allocator::memory_map() reports, in pages:
\* a few pages, a page into the second L3 table, a page beyond both tables
KernEnds == {3, L3_ENTRIES + 1, L3_TABLES * L3_ENTRIES + 1}

\* the pages whose entries the model keeps: the first and last entries of
\* each L3 table and the neighbours of the first
KernPages == {0, 1, 2, L3_ENTRIES - 1, L3_ENTRIES, L3_TABLES * L3_ENTRIES - 1}

\* the L3 entries of those pages
KernSlots == {<<pg \div L3_ENTRIES, pg % L3_ENTRIES>> : pg \in KernPages}

\* the entry the loop body builds for addr
KernEntry(addr) ==
    IF addr \div PAGE_SIZE >= IO_BASE /\ addr \div PAGE_SIZE <= IO_BASE_END
    THEN addr + KERN_DEV_BITS
    ELSE addr + KERN_MEM_BITS

\* KernPageTable::new is entered: memory_map() has returned end and
\* PageTable::new(KERN_RW) a table with every L3 entry 0
InitK ==
    /\ SchedulerNew
    /\ now = 0
    /\ calls = 0
    /\ target = 0
    /\ log = << >>
    /\ saved = << >>
    /\ passed = << >>
    /\ timer = TimerOff
    /\ MutexNew
    /\ CoresIdle
    /\ VmInit
    /\ stackvec = [storage |-> << >>, len |-> 0]
    /\ kept = [vals |-> << >>, op |-> "none", arg |-> 0]
    /\ \E e \in KernEnds :
         kpt = [op |-> "loop", addr |-> 0, end |-> e * PAGE_SIZE,
                tbl |-> [sl \in KernSlots |-> 0], panic |-> None]
    /\ ld = [op |-> "none"]

\* one turn of the loop over (start_address..end_address).step_by(PAGE_SIZE):
\* build the entry and page_table.set_entry(va, entry)
KernStep ==
    /\ kpt.op = "loop"
    /\ kpt.addr < kpt.end
    /\ LET r == PageTable_set_entry(kpt.tbl, kpt.addr, KernEntry(kpt.addr)) IN
       kpt' = IF r.panic # None
              THEN [kpt EXCEPT !.op = "panic", !.panic = r.panic]
              ELSE [kpt EXCEPT !.addr = @ + PAGE_SIZE,
                               !.tbl = IF PageTable_locate(kpt.addr).idx \in KernSlots
                                       THEN r.tbl ELSE @]
    /\ UNCHANGED <<schedVars, now, calls, rrVars, irqVars, stackvec, kept, ld, vmVars,
                   mutexVars, coreVars>>

\* the loop is over: return KernPageTable(page_table)
KernReturn ==
    /\ kpt.op = "loop"
    /\ kpt.addr >= kpt.end
    /\ kpt' = [kpt EXCEPT !.op = "done"]
    /\ UNCHANGED <<schedVars, now, calls, rrVars, irqVars, stackvec, kept, ld, vmVars,
                   mutexVars, coreVars>>

NextK == KernStep \/ KernReturn

SpecK == InitK /\ [][NextK]_vars

\* ------------------------------------------------------------ Process::load
\* The filesystem is the environment of load: open(pn) fails, or yields a
\* directory, or yields a file of some size.  The file is read as File::read
\* reads it: from the bytes read_chain collected, which may be fewer than
\* the size in the directory entry, or not at all when read_chain fails.

\* bytes_per_sector: read_chain collects a multiple of it
SECTOR == 512

\* what open(pn) and into_file() meet: a file system that was never
\* initialized, a path that does not resolve, a directory, a file
LoadKinds == {"uninitialized", "missing", "dir", "file"}

\* file.size(): empty, one byte, and whole pages up to the image pages mapped
LoadSizes == {0, 1} \cup {n * PAGE_SIZE : n \in 1..MaxImagePages}

\* data.len() after read_chain: one sector, or whole pages
LoadData == {SECTOR} \cup {n * PAGE_SIZE : n \in 1..MaxImagePages}

Min(a, b) == IF a < b THEN a ELSE b

\* Stack::new, as far as load depends on it: the allocation succeeds or not
Stack_new(ok) == IF ok THEN Some(TRUE) ELSE None

\* a Stack that goes out of scope gives its memory back
Stack_drop(stack) == FALSE

\* File::read(buf) on a file of the given size at position pos: n bytes of
\* the file from pos on are copied to the start of buf
File_read(size, datalen, chain_ok, pos, buflen) ==
    IF pos = size THEN [err |-> None, n |-> 0, pos |-> pos]
    ELSE IF pos >= size
    THEN [err |-> Some("read past the end of file"), n |-> 0, pos |-> pos]
    ELSE IF ~chain_ok
    THEN [err |-> Some("read_chain failed"), n |-> 0, pos |-> pos]
    ELSE LET a == Min(size, datalen)
             len == Min(buflen, a - pos)
         IN  [err |-> None, n |-> len, pos |-> pos + len]

\* Process::load(pn) is called; no Process exists yet
InitL ==
    /\ SchedulerNew
    /\ now = 0
    /\ calls = 0
    /\ target = 0
    /\ log = << >>
    /\ saved = << >>
    /\ passed = << >>
    /\ timer = TimerOff
    /\ MutexNew
    /\ CoresIdle
    /\ VmInit
    /\ stackvec = [storage |-> << >>, len |-> 0]
    /\ kept = [vals |-> << >>, op |-> "none", arg |-> 0]
    /\ kpt = [op |-> "none"]
    /\ \E kind \in LoadKinds, size \in LoadSizes, datalen \in LoadData,
          chain_ok \in BOOLEAN, stack_ok \in BOOLEAN :
         ld = [op |-> "new", kind |-> kind, size |-> size, datalen |-> datalen,
               chain_ok |-> chain_ok, stack_ok |-> stack_ok, stack |-> FALSE,
               pos |-> 0, addr |-> 0, filled |-> << >>, ret |-> None]

\* a failed load that forgets the Process instead of dropping it
LdFailForget(err, op) ==
    /\ ld' = [ld EXCEPT !.op = op, !.ret = Some(err)]
    /\ UNCHANGED vmVars

\* the `?` of do_load and the end of a failed load: the Process is dropped,
\* its page table and its stack with it, and the error is returned
LdFail(err, op) ==
    /\ DropProcess(1, "drop")
    /\ ld' = [ld EXCEPT !.op = op, !.ret = Some(err), !.stack = Stack_drop(@)]
    /\ UNCHANGED nproc

\* do_load: Process::new()?
LdNew ==
    /\ ld.op = "new"
    /\ IF Stack_new(ld.stack_ok) = None
       THEN /\ ld' = [ld EXCEPT !.op = "err", !.ret = Some("NoMemory")]
            /\ UNCHANGED vmVars
       ELSE /\ ld' = [ld EXCEPT !.op = "open", !.stack = TRUE]
            /\ nproc' = nproc + 1
            /\ vmap' = Put(vmap, 1, EmptyTable)
            /\ got' = Put(got, 1, << >>)
            /\ vmlast' = VmCall("new", 1, 0, << >>)
            /\ UNCHANGED allocator
    /\ UNCHANGED <<schedVars, now, calls, rrVars, irqVars, stackvec, kept, kpt,
                   mutexVars, coreVars>>

\* do_load: (&FILESYSTEM).open(pn)? and entry.into_file().ok_or(NoEntry)?;
\* FileSystem::open unwraps the handle that initialize stores
LdOpen ==
    /\ ld.op = "open"
    /\ CASE ld.kind = "uninitialized" ->
                /\ ld' = [ld EXCEPT !.op = "panic",
                                    !.ret = Some("unwrap on None")]
                /\ UNCHANGED vmVars
         [] ld.kind = "missing" -> LdFail("open failed", "err")
         [] ld.kind = "dir" -> LdFail("NoEntry", "err")
         [] ld.kind = "file" -> /\ ld' = [ld EXCEPT !.op = "stack_page"]
                                /\ UNCHANGED vmVars
    /\ UNCHANGED <<schedVars, now, calls, rrVars, irqVars, stackvec, kept, kpt,
                   mutexVars, coreVars>>

\* do_load: p.vmap.alloc(get_stack_base(), PagePerm::RW); a panic inside
\* alloc ends the kernel
LdStackPage ==
    /\ ld.op = "stack_page"
    /\ LET r == UserPageTable_alloc(vmap[1], allocator, VAs[Len(VAs)], "RW") IN
       IF r.panic # None
       THEN /\ ld' = [ld EXCEPT !.op = "panic", !.ret = r.panic]
            /\ allocator' = r.al
            /\ UNCHANGED <<vmap, got, nproc, vmlast>>
       ELSE /\ ld' = [ld EXCEPT !.op = "image"]
            /\ vmap' = [vmap EXCEPT ![1] = r.tbl]
            /\ allocator' = r.al
            /\ got' = [got EXCEPT ![1] = Append(@, r.addr)]
            /\ vmlast' = VmCall("alloc", 1, r.addr, << >>)
            /\ UNCHANGED nproc
    /\ UNCHANGED <<schedVars, now, calls, rrVars, irqVars, stackvec, kept, kpt,
                   mutexVars, coreVars>>

\* one turn of `while addr < end_addr`: alloc(addr, RWX), file.read(bytes)?,
\* addr += PAGE_SIZE; the number read returns is not looked at.  filled
\* records for the page which bytes of the file it received.
LdImagePage ==
    /\ ld.op = "image"
    /\ ld.addr < ld.size
    /\ LET r == UserPageTable_alloc(vmap[1], allocator, ld.addr, "RWX")
           rd == File_read(ld.size, ld.datalen, ld.chain_ok, ld.pos, PAGE_SIZE)
       IN  IF r.panic # None
           THEN /\ ld' = [ld EXCEPT !.op = "panic", !.ret = r.panic]
                /\ allocator' = r.al
                /\ UNCHANGED <<vmap, got, nproc, vmlast>>
           ELSE IF rd.err # None
           THEN /\ LET dr == UserPageTable_drop(r.tbl, r.al) IN
                     /\ vmap' = Without(vmap, 1)
                     /\ got' = Without(got, 1)
                     /\ allocator' = dr.al
                     /\ vmlast' = VmCall("drop", 1, 0, dr.freed)
                /\ ld' = [ld EXCEPT !.op = "err", !.ret = rd.err,
                                    !.stack = Stack_drop(@)]
                /\ UNCHANGED nproc
           ELSE /\ ld' = [ld EXCEPT !.pos = rd.pos,
                                    !.addr = @ + PAGE_SIZE,
                                    !.filled = Append(@, [va |-> ld.addr, page |-> r.addr,
                                                          off |-> ld.pos, n |-> rd.n])]
                /\ vmap' = [vmap EXCEPT ![1] = r.tbl]
                /\ allocator' = r.al
                /\ got' = [got EXCEPT ![1] = Append(@, r.addr)]
                /\ vmlast' = VmCall("alloc", 1, r.addr, << >>)
                /\ UNCHANGED nproc
    /\ UNCHANGED <<schedVars, now, calls, rrVars, irqVars, stackvec, kept, kpt,
                   mutexVars, coreVars>>

\* the loop is over: do_load returns Ok(p), load fills in the trap frame and
\* returns Ok(p)
LdReturn ==
    /\ ld.op = "image"
    /\ ld.addr >= ld.size
    /\ ld' = [ld EXCEPT !.op = "ok", !.ret = Some("Ok")]
    /\ UNCHANGED <<schedVars, now, calls, rrVars, irqVars, stackvec, kept, kpt, vmVars,
                   mutexVars, coreVars>>

NextL == LdNew \/ LdOpen \/ LdStackPage \/ LdImagePage \/ LdReturn

SpecL == InitL /\ [][NextL]_vars

\* ------------------------------------------------------------- properties
\* q without its entry at 1-based position j
RemoveAt(q, j) == SubSeq(q, 1, j - 1) \o SubSeq(q, j + 1, Len(q))

\* a step that is a call of the named Scheduler operation
IsCall(op) == calls' = calls + 1 /\ last'.op = op

\* C1: with N processes added to a fresh Scheduler, the i-th switch_to of the
\* switch_to / schedule_out(Ready) cycles returns the id ((i-1) mod N) + 1
C1_RoundRobin ==
    \A i \in 1..Len(log) : log[i] = Some(((i - 1) % target) + 1)

C1_Witness ==
    /\ target = 4
    /\ log = <<Some(1), Some(2), Some(3), Some(4), Some(1), Some(2), Some(3), Some(4)>>

\* C2: schedule_out(new_state, tf) acts on the queued process whose stored
\* TPIDR equals tf.TPIDR: it gets frame tf and state new_state and moves to
\* the back, and the other entries keep their order, frames and states
C2_ScheduleOutByTPIDR ==
    [][(/\ IsCall("schedule_out")
        /\ \E j \in 1..Len(processes) : processes[j].context.TPIDR = tf'.TPIDR)
       => \E j \in 1..Len(processes) :
            /\ processes[j].context.TPIDR = tf'.TPIDR
            /\ processes' = Append(RemoveAt(processes, j),
                                   [processes[j] EXCEPT !.context = tf',
                                                        !.state = last'.st])]_vars

\* C3: after switch_to returned Some(id) the front process has TPIDR id and
\* state Running and the caller's frame equals its stored frame
C3_SwitchToRestores ==
    (last.op = "switch_to" /\ last.ret # None) =>
        /\ processes # << >>
        /\ Head(processes).context.TPIDR = last.ret[1]
        /\ Head(processes).state = Running
        /\ tf.TPIDR = last.ret[1]
        /\ tf = Head(processes).context

C3_Witness ==
    /\ last.op = "switch_to"
    /\ last.ret # None
    /\ Len(processes) >= 2
    /\ tf.ELR # 0

\* C4: the process switch_to selects is the first process of the queue, as
\* it stood before the call, for which is_ready is true
C4_FirstReadyWins ==
    [][(IsCall("switch_to") /\ last'.ret # None)
       => \E k \in 1..Len(processes) :
            /\ is_ready(processes[k], now).b
            /\ \A j \in 1..(k - 1) : ~is_ready(processes[j], now).b
            /\ Head(processes').pid = processes[k].pid
            /\ last'.ret = Some(is_ready(processes[k], now).p.context.TPIDR)]_vars

C4_Witness ==
    /\ last.op = "switch_to"
    /\ last.ret # None
    /\ last.skipped >= 1
    /\ Len(processes) >= 3
    /\ \E n \in 2..Len(processes) : processes[n].state = Ready

\* C5: the k-th add returns Some(k), stores k in the TPIDR of the process it
\* appends and leaves last_id at Some(k), whatever other calls came between
C5_IdsCountAdds ==
    /\ last_id = IF adds = 0 THEN None ELSE Some(adds)
    /\ last.op = "add" =>
        /\ last.ret = Some(adds)
        /\ processes[Len(processes)].context.TPIDR = adds
        /\ processes[Len(processes)].pid = adds

C5_Witness ==
    /\ last.op = "add"
    /\ adds >= 2
    /\ Len(processes) < adds

\* C10: a switch_to call never selects a Waiting process whose poll returns
\* false and leaves it as it was; a Waiting process whose poll returns true
\* and that the scan reaches is selected and becomes Running
C10_WaitingPolled ==
    [][IsCall("switch_to")
       => \A k \in 1..Len(processes) :
            LET p == processes[k]
                poll == sleep_fn(p.state.start, p.state.ms, p, now).b
                reached == \A j \in 1..(k - 1) : ~is_ready(processes[j], now).b
            IN  p.state.k = "Waiting" =>
                  /\ ~poll =>
                       /\ last'.ret = None \/ Head(processes').pid # p.pid
                       /\ \E n \in 1..Len(processes') : processes'[n] = p
                  /\ (poll /\ reached) =>
                       /\ last'.ret = Some(p.context.TPIDR)
                       /\ Head(processes').pid = p.pid
                       /\ Head(processes').state = Running]_vars

C10_Witness ==
    /\ last.op = "switch_to"
    /\ last.ret # None
    /\ last.from.k = "Waiting"
    /\ last.skipped >= 1
    /\ Len(processes) >= 2
    /\ processes[2].state.k = "Waiting"

\* C8: at most one MutexGuard of the Mutex is live at a time, whatever the
\* cores' lock, try_lock and drop calls and whichever path try_lock takes
C8_OneGuard ==
    /\ \A c \in Cores : guards[c] <= 1
    /\ \A c, d \in Cores : (c # d /\ guards[c] > 0) => guards[d] = 0

\* C6: the scheduler lock is held from the schedule_out of a switch call to
\* its first switch_to scan: when core c leaves the critical section of
\* schedule_out it still owns the lock
C6_SwitchOneCriticalSection ==
    [][\A c \in Cores :
         (pc[c] = "so_crit" /\ pc'[c] = "st_lock")
         => (lock' /\ owner' = c /\ guards'[c] > 0)]_vars

\* every queued process still carries its own id, so no id is queued twice
OwnFrames(q) ==
    /\ \A n \in 1..Len(q) : q[n].context.TPIDR = q[n].pid
    /\ \A m, n \in 1..Len(q) : m # n => q[m].context.TPIDR # q[n].context.TPIDR

\* C7: when a core that runs a queued process schedules it out, the queued
\* TPIDRs stay pairwise distinct and every stored trap frame is still one
\* captured from its own process, however the cores' switch calls interleave
C7_NoDoubleScheduleOut ==
    [][\A c \in Cores :
         (/\ pc[c] = "so_crit" /\ pc'[c] = "st_lock"
          /\ OwnFrames(processes)
          /\ \E k \in 1..Len(processes) :
               processes[k].pid = ctf[c].TPIDR /\ processes[k].state = Running)
         => OwnFrames(processes')]_vars

\* some queued process would pass is_ready now
SomeReady == \E k \in 1..Len(processes) : is_ready(processes[k], now).b

\* C9: switch returns only from a scan that found a ready process, with the
\* id of the first ready process, which is then Running at the front; and
\* once some queued process is ready a core in the switch_to loop returns
C9_SwitchReturnsReady ==
    /\ [][\A c \in Cores :
            (pc[c] = "st_crit" /\ pc'[c] = "user")
            => \E k \in 1..Len(processes) :
                 /\ is_ready(processes[k], now).b
                 /\ \A j \in 1..(k - 1) : ~is_ready(processes[j], now).b
                 /\ rid'[c] = Some(is_ready(processes[k], now).p.context.TPIDR)
                 /\ Head(processes').pid = processes[k].pid
                 /\ Head(processes').state = Running
                 /\ ctf'[c] = Head(processes').context]_vars
    /\ [][\A c \in Cores :
            (pc[c] = "st_crit" /\ ~SomeReady /\ pc'[c] # "st_crit")
            => (pc'[c] = "wfi" /\ rid'[c] = rid[c])]_vars
    /\ \A c \in {0} :
         (pc[c] \in {"st_lock", "st_crit", "wfi"} /\ SomeReady) ~> (pc[c] = "user")

C9_Witness ==
    /\ pc[0] = "user"
    /\ rid[0] # None
    /\ Len(processes) = 1
    /\ Head(processes).state = Running
    /\ ctf[0].x7 = 1
    /\ ctf[0].TPIDR = rid[0][1]

\* C11: is_ready returns true exactly when the state is Ready, or Waiting
\* with a poll function that returns true; after true the state is Ready;
\* after false the state is what it was before the call
C11_IsReadyContract ==
    [][IsCall("is_ready")
       => LET p == Head(processes)
              q == Head(processes')
              b == last'.ret[1]
              poll == sleep_fn(p.state.start, p.state.ms, p, now).b
          IN  /\ b <=> (p.state.k = "Ready" \/ (p.state.k = "Waiting" /\ poll))
              /\ b => q.state = Ready
              /\ ~b => q.state = p.state
              /\ (~b /\ p.state.k \in {"Running", "Dead"}) => q = p]_vars

C11_Witness ==
    /\ last.op = "is_ready"
    /\ last.ret = Some(FALSE)
    /\ last.from.k = "Waiting"
    /\ last.from.ms = 1
    /\ Head(processes).state = last.from
    /\ now = 1

\* C12: switch_to returns None exactly when the queue is empty or is_ready is
\* false for every queued process, and then the caller's trap frame is as it
\* was before the call
C12_NoneIffNoneReady ==
    [][IsCall("switch_to")
       => /\ (last'.ret = None) <=> ~SomeReady
          /\ (last'.ret = None) => (tf' = tf)]_vars

C12_Witness ==
    /\ last.op = "switch_to"
    /\ last.ret = None
    /\ Len(processes) >= 2
    /\ tf # DefaultTrapFrame

\* C13: on a queue holding exactly one process, which is Ready, switch_to
\* returns its id and leaves one entry, and every further switch_to that
\* follows with no other call in between returns the same id
C13_SingleReadyIdempotent ==
    [][(/\ IsCall("switch_to")
        /\ Len(processes) = 1
        /\ \/ Head(processes).state = Ready
           \/ last.op = "switch_to" /\ last.ret # None /\ last.from = Ready)
       => /\ Len(processes') = 1
          /\ last'.ret = Some(Head(processes).context.TPIDR)]_vars

\* C14: one switch_to call calls is_ready at most once on each queued
\* process and on at most len(queue) processes in all; when it returns None
\* it has called it on every queued process exactly once
C14_ScanBounded ==
    [][IsCall("switch_to")
       => LET r == switch_to(processes, tf, now) IN
          /\ r.processes = processes'
          /\ r.ret = last'.ret
          /\ Len(r.seen) <= Len(processes)
          /\ \A m, n \in 1..Len(r.seen) : m # n => r.seen[m] # r.seen[n]
          /\ \A n \in 1..Len(r.seen) :
                \E j \in 1..Len(processes) : processes[j].pid = r.seen[n]
          /\ (last'.ret = None) => (r.seen = Pids(processes))]_vars

C14_Witness ==
    /\ last.op = "switch_to"
    /\ last.ret = None
    /\ Len(processes) = 2
    /\ \E n \in 1..2 : processes[n].state = Running
    /\ \E n \in 1..2 : processes[n].state.k = "Waiting"

\* C15: after a switch_to call that selects the process at position k the k
\* processes it skipped are the last k queue entries, in their original
\* order; after a call that returns None the queue order is as before
C15_SkippedToBack ==
    [][IsCall("switch_to")
       => IF last'.ret = None
          THEN Pids(processes') = Pids(processes)
          ELSE LET k == last'.skipped
                   n == Len(processes)
               IN  \A j \in 1..k : processes'[n - k + j].pid = processes[j].pid]_vars

\* the queue positions of the Dead processes of q
DeadAt(q) == {n \in 1..Len(q) : q[n].state = Dead}

Count(f, a) == Cardinality({n \in DOMAIN f : f[n] = a})

\* pages the allocator has handed out and not got back
AllocatedCount(al) == (al.start - POOL_START) \div PAGE_SIZE - Len(al.bin)

\* C18: when kill removes a process, every page its UserPageTable had
\* mapped is passed to dealloc exactly once in that step and is then once on
\* the allocator's free list, and no page of another process is freed: the
\* other tables are as they were and none of their pages is on the free list
C18_KillFreesItsPages ==
    [][(Len(processes') < Len(processes))
       => \E removed \in Range(Pids(processes)) \ Range(Pids(processes')) :
            /\ removed \in DOMAIN vmap
            /\ removed \notin DOMAIN vmap'
            /\ vmlast'.pid = removed
            /\ \A a \in Pages(vmap[removed]) :
                  Count(vmlast'.freed, a) = 1 /\ Count(allocator'.bin, a) = 1
            /\ Range(vmlast'.freed) \subseteq Pages(vmap[removed])
            /\ \A q \in DOMAIN vmap \ {removed} :
                  /\ q \in DOMAIN vmap'
                  /\ vmap'[q] = vmap[q]
                  /\ Pages(vmap[q]) \cap Range(vmlast'.freed) = {}
                  /\ Pages(vmap[q]) \cap Range(allocator'.bin) = {}]_vars

C18_Witness ==
    /\ vmlast.op = "kill"
    /\ Len(vmlast.freed) = 2
    /\ Len(processes) = 1
    /\ Head(processes).pid \in DOMAIN vmap
    /\ Pages(vmap[Head(processes).pid]) # {}

\* C19: when a UserPageTable is dropped after N alloc calls, each address
\* alloc returned is passed to dealloc exactly once and no other address is,
\* and the allocator's count of allocated pages, which every alloc raised by
\* one, falls by N: it is back at its first value once no table is left
C19_DropReturnsEveryPage ==
    [][/\ \A p \in DOMAIN vmap \ DOMAIN vmap' :
            /\ \A a \in Range(got[p]) : Count(vmlast'.freed, a) = 1
            /\ Range(vmlast'.freed) \subseteq Range(got[p])
            /\ Len(vmlast'.freed) = Len(got[p])
            /\ AllocatedCount(allocator') = AllocatedCount(allocator) - Len(got[p])
            /\ (DOMAIN vmap' = {}) => (AllocatedCount(allocator') = 0)
       /\ \A p \in DOMAIN got \cap DOMAIN got' :
            (got'[p] # got[p])
            => /\ Len(got'[p]) = Len(got[p]) + 1
               /\ AllocatedCount(allocator') = AllocatedCount(allocator) + 1]_vars

C19_Witness ==
    /\ vmlast.op = "drop"
    /\ Len(vmlast.freed) = 2
    /\ DOMAIN vmap = {}
    /\ Len(allocator.bin) = 2
    /\ AllocatedCount(allocator) = 0

\* C20: no physical page is referenced by valid entries of two live
\* UserPageTables, nor by two slots of one table
C20_NoSharedPage ==
    \A p, q \in DOMAIN vmap :
      \A s \in DOMAIN vmap[p], t \in DOMAIN vmap[q] :
        (/\ <<p, s>> # <<q, t>>
         /\ is_valid(vmap[p][s])
         /\ is_valid(vmap[q][t]))
        => get_page_addr(vmap[p][s]) # get_page_addr(vmap[q][t])

C20_Witness ==
    /\ vmlast.op = "alloc"
    /\ vmlast.addr = POOL_START
    /\ nproc = 2
    /\ \E p \in DOMAIN vmap : Cardinality(Pages(vmap[p])) = 2
    /\ processes # << >>
    /\ Head(processes).pid \in DOMAIN vmap

\* C21: alloc(va, perm) panics when va is below the user image base and when
\* the slot of va is already valid; in both cases ALLOCATOR.alloc has not
\* been called and the table and the allocator are as they were
C21_AllocPreconditions ==
    [][(vmlast'.op = "alloc")
       => LET va == vmlast'.va
              tbl == vmap[1]
              below == va < 0
              mapped == /\ va >= 0
                        /\ va % PAGE_SIZE = 0
                        /\ locate(va) \in DOMAIN tbl
                        /\ is_valid(tbl[locate(va)])
          IN  /\ below => vmlast'.panic = Some("va < USER_IMG_BASE")
              /\ mapped => vmlast'.panic = Some("va already allocated")
              /\ (below \/ mapped)
                 => /\ ~vmlast'.asked
                    /\ allocator' = allocator
                    /\ vmap' = vmap]_vars

C21_Witness ==
    /\ vmlast.op = "alloc"
    /\ vmlast.panic = Some("va already allocated")
    /\ vmlast.va = L3_ENTRIES * PAGE_SIZE + (L3_ENTRIES - 1) * PAGE_SIZE
    /\ got[1] # << >>
    /\ get_page_addr(vmap[1][locate(vmlast.va)]) = Some(got[1][1])
    /\ allocator.start < allocator.end

\* the access-permission field of an L3 entry, bits 6 and 7
AP(entry) == (entry \div 64) % 4

\* the hardware encoding of a permission class: user read-only is 3,
\* user read/write is 1
EntryPermOf(perm) == IF perm = "RO" THEN 3 ELSE 1

\* C22: the entry alloc(va, perm) installs is valid, holds the address the
\* allocator returned, and its access-permission field is the encoding of
\* the class perm, so that an RO entry differs from an RW entry
C22_EntryCarriesPerm ==
    [][(vmlast'.op = "alloc" /\ vmlast'.panic = None)
       => LET entry == vmap'[1][locate(vmlast'.va)] IN
          /\ is_valid(entry)
          /\ get_page_addr(entry) = Some(vmlast'.addr)
          /\ vmlast'.addr = Allocator_alloc(allocator).addr
          /\ AP(entry) = EntryPermOf(vmlast'.perm)]_vars

\* C23: locate(va) panics for every va whose low 16 bits are not zero and
\* for every va whose L2 index is not below the number of L3 tables; for
\* every other va it returns (bits 29 to 41, bits 16 to 28)
C23_LocatePanics ==
    [][(vmlast'.op = "locate")
       => LET va == vmlast'.va
              l2 == (va \div (L3_ENTRIES * PAGE_SIZE)) % L3_ENTRIES
              l3 == (va \div PAGE_SIZE) % L3_ENTRIES
          IN  IF va % PAGE_SIZE # 0 \/ l2 >= L3_TABLES
              THEN vmlast'.panic # None
              ELSE vmlast'.panic = None /\ vmlast'.idx = <<l2, l3>>]_vars

\* the page-aligned addresses of the supported range among those passed in:
\* the ones that fall into the two L3 tables
PtSupported == {va \in PtVAs : /\ va % PAGE_SIZE = 0
                               /\ va \div (L3_ENTRIES * PAGE_SIZE) < L3_TABLES}

\* the entry the page table holds for address va
EntryAt(tbl, va) == tbl[locate(va)]

\* C24: for a page-aligned va of the supported range, is_valid(va) is true
\* after set_entry(va, e) with a valid e, and set_entry(va, e) changes the
\* entry of no other such address; an address is invalid in a new table and
\* becomes valid only by a set_entry or alloc at that very address
C24_SetEntryRoundTrip ==
    /\ \A va \in PtSupported :
         PageTable_is_invalid(vmap[1], va) = [panic |-> None, b |-> TRUE]
    /\ [][/\ (vmlast'.op = "set_entry" /\ vmlast'.va \in PtSupported)
             => /\ vmlast'.panic = None
                /\ is_valid(vmlast'.entry)
                     => PageTable_is_valid(vmap'[1], vmlast'.va) =
                           [panic |-> None, b |-> TRUE]
                /\ \A va2 \in PtSupported \ {vmlast'.va} :
                     /\ locate(va2) # locate(vmlast'.va)
                     /\ EntryAt(vmap'[1], va2) = EntryAt(vmap[1], va2)
          /\ \A va \in PtSupported :
                (/\ PageTable_is_invalid(vmap[1], va).b
                 /\ PageTable_is_valid(vmap'[1], va).b)
                => (vmlast'.op \in {"set_entry", "alloc"} /\ vmlast'.va = va)]_vars

C24_Witness ==
    /\ vmlast.op = "set_entry"
    /\ vmlast.panic = None
    /\ vmlast.va = L3_ENTRIES * PAGE_SIZE + (L3_ENTRIES - 1) * PAGE_SIZE
    /\ is_valid(vmlast.entry)
    /\ PageTable_is_valid(vmap[1], vmlast.va).b
    /\ PageTable_is_valid(vmap[1], (L3_ENTRIES - 1) * PAGE_SIZE).b
    /\ PageTable_is_invalid(vmap[1], L3_ENTRIES * PAGE_SIZE).b
    /\ PageTable_is_invalid(vmap[1], 0).b

\* a step of SpecCtx that is a switch_to call: neither a trap, nor an add,
\* nor a tick of the clock
CtxSwitched == last'.op = "switch_to" /\ calls' = calls /\ adds' = adds /\ now' = now

\* C25: schedule_out(Ready, T) stores the whole of T in the process it
\* schedules out, and the next switch_to that selects that process writes
\* exactly T, every field of it, into the caller's trap frame
C25_WholeFrameRestored ==
    [][/\ (IsCall("schedule_out") /\ last'.ret = Some(TRUE))
          => processes'[Len(processes')].context = tf'
       /\ (CtxSwitched /\ last'.ret # None)
          => LET pid == Head(processes').pid IN
             (pid \in DOMAIN saved /\ saved[pid] # None)
             => /\ tf' = saved[pid][1]
                /\ \A f \in DOMAIN tf' : tf'[f] = saved[pid][1][f]]_vars

C25_Witness ==
    /\ last.op = "switch_to"
    /\ last.ret = Some(1)
    /\ last.skipped >= 1
    /\ 1 \in DOMAIN saved
    /\ saved[1] = Some(Captured(2, 1))
    /\ tf = Captured(2, 1)
    /\ Len(processes) >= 2
    /\ processes[2].context = Captured(1, 2)

\* the kind of state of the process object pid in queue q, "none" when it
\* is not queued
KindOf(q, pid) ==
    IF \E n \in 1..Len(q) : q[n].pid = pid
    THEN q[IndexOf(q, pid) + 1].state.k ELSE "none"

\* the whole state of a queued process object pid
StateOf(q, pid) == q[IndexOf(q, pid) + 1].state

\* the changes of state one scheduler call may make to a process: add
\* queues it Ready, switch_to selects a Ready process or a Waiting one whose
\* poll returned true, schedule_out takes the Running process to Ready or
\* Waiting, kill takes it to Dead and removes it
Transitions == {<<"none", "Ready">>, <<"Ready", "Running">>, <<"Waiting", "Running">>,
                <<"Running", "Ready">>, <<"Running", "Waiting">>, <<"Running", "none">>}

\* C26: over the calls the kernel issues a process changes state only from
\* Ready to Running, Running to Ready, Waiting or Dead, and Waiting to Ready
\* and on to Running in one scan; a killed process is Dead and gone, is
\* never queued again, and no Dead process is ever queued or selected
C26_StateMachine ==
    /\ [][\A pid \in 1..MaxAdds :
            LET a == KindOf(processes, pid)
                b == KindOf(processes', pid)
            IN  /\ (a # b) => <<a, b>> \in Transitions
                /\ (a = b /\ a # "none")
                     => StateOf(processes', pid) = StateOf(processes, pid)
                /\ (a = "none" /\ b # "none") => pid = adds'
                /\ (a = "Waiting" /\ b = "Running")
                     => /\ is_ready([state |-> StateOf(processes, pid),
                                     context |-> DefaultTrapFrame], now).b
                        /\ CtxSwitched
                /\ (a = "Running" /\ b = "none") => IsCall("kill")
                /\ (CtxSwitched /\ last'.ret # None /\ Head(processes').pid = pid)
                     => a \in {"Ready", "Waiting"}]_vars
    /\ [](\A n \in 1..Len(processes) : processes[n].state.k # "Dead")

C26_Witness ==
    /\ last.op = "switch_to"
    /\ last.ret = Some(1)
    /\ last.from.k = "Waiting"
    /\ Pids(processes) = <<1>>
    /\ adds = 2
    /\ calls = 3

\* the entry of queue q that is the process object pid
Entry(q, pid) == q[IndexOf(q, pid) + 1]

\* C27: in a switch_to call the stored registers of a Waiting process are
\* written, x0 with the elapsed milliseconds and x7 with 1, only when its
\* poll is invoked and returns true, and the same call then selects it; a
\* Waiting process whose poll returns false, or is not invoked, keeps its
\* stored trap frame and its Waiting state
C27_PollWritesOnlyOnTrue ==
    [][IsCall("switch_to")
       => \A k \in 1..Len(processes) :
            LET p == processes[k]
                elapsed == now - p.state.start
                poll == elapsed > p.state.ms
                invoked == \A j \in 1..(k - 1) : ~is_ready(processes[j], now).b
                after == Entry(processes', p.pid)
            IN  p.state.k = "Waiting" =>
                  IF poll /\ invoked
                  THEN /\ after.context = [p.context EXCEPT !.x0 = elapsed, !.x7 = 1]
                       /\ after.state = Running
                       /\ Head(processes').pid = p.pid
                       /\ last'.ret = Some(p.context.TPIDR)
                       /\ tf' = after.context
                  ELSE /\ after.context = p.context
                       /\ after.state = p.state]_vars

C27_Witness ==
    /\ last.op = "switch_to"
    /\ last.ret # None
    /\ last.from = Waiting(0, 0)
    /\ last.skipped >= 1
    /\ tf.x0 = 1
    /\ tf.x7 = 1
    /\ Head(processes).context = tf
    /\ \E n \in 2..Len(processes) :
         processes[n].state = Waiting(0, 1) /\ processes[n].context.x7 = 0

\* C28: start selects the first process with switch_to into a fresh trap
\* frame, then arms the timer interrupt, and only then enters user mode:
\* when start hands the core to user mode the Timer1 handler is registered,
\* the interrupt is enabled and a match is armed
C28_TimerArmedBeforeUser ==
    [][\A c \in Cores :
         (pc[c] = "start_crit" /\ pc'[c] = "user")
         => /\ ctf'[c] = switch_to(processes, DefaultTrapFrame, now).tf
            /\ timer'.registered
            /\ timer'.enabled
            /\ timer'.armed]_vars

\* C29: find_process called right after add(p) returned id, with a trap
\* frame whose TPIDR is id, returns the process p just added, whatever the
\* queue held before
C29_FindAfterAdd ==
    [][IsCall("find_process")
       => last'.ret = Some(processes[Len(processes)].pid)]_vars

\* C30: schedule_out returns false and changes nothing when the queue is
\* empty or holds no Running process, and it never changes the stored trap
\* frame or the state of a process that is not Running
C30_ScheduleOutNeedsRunning ==
    [][IsCall("schedule_out")
       => /\ (\A n \in 1..Len(processes) : processes[n].state # Running)
               => (last'.ret = Some(FALSE) /\ processes' = processes)
          /\ \A n \in 1..Len(processes) :
               (processes[n].state # Running)
               => /\ Entry(processes', processes[n].pid).context = processes[n].context
                  /\ Entry(processes', processes[n].pid).state = processes[n].state]_vars

\* the Process objects queued in q, as a set
PidSet(q) == {q[n].pid : n \in 1..Len(q)}

\* C37: switch_to and schedule_out leave the queue with the same processes,
\* each once, and the same length; a step that grows the queue is an add and
\* grows it by one, a step that shrinks it is a kill and shrinks it by one
C37_QueueMembership ==
    [][/\ (IsCall("switch_to") \/ IsCall("schedule_out"))
            => /\ Len(processes') = Len(processes)
               /\ PidSet(processes') = PidSet(processes)
               /\ Cardinality(PidSet(processes')) = Len(processes')
       /\ Len(processes') > Len(processes)
            => IsCall("add") /\ Len(processes') = Len(processes) + 1
       /\ Len(processes') < Len(processes)
            => IsCall("kill") /\ Len(processes') = Len(processes) - 1
       /\ IsCall("add") => Len(processes') = Len(processes) + 1
       /\ (IsCall("kill") /\ processes # << >>)
            => Len(processes') = Len(processes) - 1]_vars

C37_Witness ==
    /\ last.op = "switch_to"
    /\ last.skipped >= 1
    /\ last.ret # None
    /\ Len(processes) = 2
    /\ Cardinality(PidSet(processes)) = 2

\* the queue positions of the processes whose state is Running
RunningAt(q) == {n \in 1..Len(q) : q[n].state = Running}

\* C35: on the one core the kernel runs, whenever the scheduler lock is free
\* at most one queued process is Running, and a Running process is the front
\* entry of the queue
C35_RunningIsFront ==
    ~lock => RunningAt(processes) \subseteq {1}

C35_Witness ==
    /\ ~lock
    /\ pc[0] = "user"
    /\ Len(processes) = 2
    /\ RunningAt(processes) = {1}
    /\ processes[2].state.k = "Waiting"
    /\ calls >= 2

\* C38: start enters user mode only with a trap frame that its switch_to
\* filled from a selected process; when that switch_to returns None it does
\* not go on to user mode with the zeroed scratch frame
C38_StartNeedsAProcess ==
    [][\A c \in Cores :
         (pc[c] = "start_crit" /\ pc'[c] = "user")
         => /\ switch_to(processes, DefaultTrapFrame, now).ret # None
            /\ ctf'[c] # DefaultTrapFrame]_vars

\* C39: a core that waits for an interrupt inside GlobalScheduler::switch_to
\* holds no guard of the scheduler lock: the lock is then free or held by
\* another core that is inside its own critical section
C39_IdleHoldsNoLock ==
    \A c \in Cores :
      pc[c] = "wfi"
      => /\ guards[c] = 0
         /\ lock => \E d \in Cores \ {c} :
                      /\ guards[d] > 0
                      /\ pc[d] \in {"add_crit", "start_crit", "so_crit",
                                    "st_crit", "kill_crit"}

C39_Witness ==
    /\ pc[0] = "wfi"
    /\ lock
    /\ guards[1] = 1
    /\ pc[1] \in {"so_crit", "st_crit", "kill_crit"}

\* C36: in switch_to / schedule_out cycles with no kill, a queued process that
\* is Ready has been passed over by fewer switch_to selections than the queue
\* has processes, so it is selected within as many cycles as the queue is long
C36_NoStarvation ==
    \A n \in 1..Len(processes) :
      processes[n].state = Ready
      => passed[processes[n].pid] <= Len(processes) - 1

C36_Witness ==
    /\ last.op = "switch_to"
    /\ Len(processes) = 3
    /\ \E n \in 2..3 :
         /\ processes[n].state = Ready
         /\ passed[processes[n].pid] = 2
    /\ \E m \in 2..3 : processes[m].state.k = "Waiting"

\* C34: truncate(len) leaves the vector unchanged when len is at least the
\* current length and otherwise sets the length to len; no call changes the
\* capacity; and the elements below the length are exactly the values pushed
\* and not yet removed
C34_TruncateNeverGrows ==
    /\ [][/\ StackVec_capacity(stackvec') = StackVec_capacity(stackvec)
          /\ kept'.op = "truncate"
               => IF kept'.arg >= stackvec.len THEN stackvec' = stackvec
                  ELSE stackvec'.len = kept'.arg]_vars
    /\ [](/\ stackvec.len = Len(kept.vals)
          /\ \A i \in 1..Len(kept.vals) : stackvec.storage[i] = kept.vals[i])

\* the entry a finished kernel table holds for page pg; a page beyond the
\* two L3 tables has no entry
KernEntryAt(pg) ==
    IF pg \div L3_ENTRIES >= L3_TABLES THEN 0
    ELSE kpt.tbl[<<pg \div L3_ENTRIES, pg % L3_ENTRIES>>]

\* C31: when KernPageTable::new returns, every page of RAM below the end of
\* usable memory has a valid entry that maps it to itself with KERN_RW, normal
\* memory and inner shareable, and every page of the I/O range has a valid
\* entry that maps it to itself with KERN_RW, device memory and outer shareable
C31_KernelIdentityMap ==
    kpt.op = "done"
    => /\ \A pg \in KernPages :
            pg * PAGE_SIZE < kpt.end
            => KernEntryAt(pg) = pg * PAGE_SIZE + KERN_MEM_BITS
       /\ \A pg \in {IO_BASE, IO_BASE_END - 1} :
            /\ is_valid(KernEntryAt(pg))
            /\ KernEntryAt(pg) % PAGE_SIZE = KERN_DEV_BITS

\* the bytes of a file of the given size that the k-th image page is due
Due(size, k) == Min(PAGE_SIZE, size - (k - 1) * PAGE_SIZE)

OpenFailed == ld.op = "err" /\ ld.ret \in {Some("open failed"), Some("NoEntry")}

====
